---- MODULE Spec2Model ----
(***************************************************************************)
(* Message catalogs of poboy (babelmsg/catalog.py): the Message / Catalog  *)
(* data model, key derivation, item assignment and the update()            *)
(* reconciliation of a translated catalog against a template, including    *)
(* the difflib fuzzy matcher it calls.                                     *)
(*                                                                         *)
(* Representation.                                                         *)
(*   - a msgid text is a sequence of one-character strings, so that        *)
(*     lower(), strip(), string comparison and the matcher work on it;     *)
(*   - a Python value that is "a scalar or a tuple" (Message.id,           *)
(*     Message.string) is a record [tup, forms]: tup says whether it is a  *)
(*     tuple/list, forms are its items (the single item of a scalar);      *)
(*   - None is the atom None; a translated text is an atom (a string);     *)
(*   - an OrderedDict is a sequence of [key, msg] records with distinct    *)
(*     keys, in insertion order;                                           *)
(*   - a catalog key is [pair, id, ctx]: the plain msgid text when pair    *)
(*     is FALSE, the Python tuple (msgid, msgctxt) when pair is TRUE.      *)
(***************************************************************************)
EXTENDS Integers, Sequences, FiniteSets, TLC

VARIABLES
    cat,     \* the catalog being maintained (a Catalog with a locale)
    tmpl,    \* the template catalog it is reconciled against
    pc,      \* "build" while messages are added, then "updated" or "raised"
    hist,    \* what the last update() did (observation only)
    other,   \* a second catalog object, a sibling of cat or its clone, as a
             \* list: empty while there is none
    log,     \* the calls made on cat so far, in order (observation only)
    fs,      \* the names of the files written so far
    shared   \* which entries of the catalogs are one object held twice:
             \* <<"tmpl", k>> when cat's entry k is the template's message,
             \* <<"orphans", k>> when it is also cat's orphans entry k

vars == <<cat, tmpl, pc, hist, other, log, fs, shared>>

None == "None"

\* ------------------------------------------------------------------------
\* Bounds of the model
\* ------------------------------------------------------------------------
\* most messages a catalog is given before it is updated
MaxCat == 2
\* most messages the template is given
MaxTmpl == 2

\* ------------------------------------------------------------------------
\* Texts: str.lower(), str.strip(), str comparison
\* ------------------------------------------------------------------------
\* the characters of the msgids used, in increasing code point order
CodePoints == <<" ", "C", "c", "l", "o", "r", "u">>

Ord(c) == CHOOSE i \in DOMAIN CodePoints : CodePoints[i] = c

\* the ASCII capitals and their small letters
Capitals ==
    <<"A", "B", "C", "D", "E", "F", "G", "H", "I", "J", "K", "L", "M",
      "N", "O", "P", "Q", "R", "S", "T", "U", "V", "W", "X", "Y", "Z">>
Smalls ==
    <<"a", "b", "c", "d", "e", "f", "g", "h", "i", "j", "k", "l", "m",
      "n", "o", "p", "q", "r", "s", "t", "u", "v", "w", "x", "y", "z">>

LowerChar(c) ==
    IF \E i \in DOMAIN Capitals : Capitals[i] = c
    THEN Smalls[CHOOSE i \in DOMAIN Capitals : Capitals[i] = c]
    ELSE c

\* str.lower()
Lower(t) == [i \in DOMAIN t |-> LowerChar(t[i])]

\* the white space str.strip() removes, of the characters used
Whitespace == {" ", "\n"}

RECURSIVE LStrip(_)
LStrip(t) == IF t # <<>> /\ t[1] \in Whitespace THEN LStrip(Tail(t)) ELSE t

RECURSIVE RStrip(_)
RStrip(t) ==
    IF t # <<>> /\ t[Len(t)] \in Whitespace
    THEN RStrip(SubSeq(t, 1, Len(t) - 1)) ELSE t

\* str.strip()
Strip(t) == RStrip(LStrip(t))

\* a < b for Python str (lexicographic by code point, a proper prefix is less)
RECURSIVE StrLess(_, _)
StrLess(a, b) ==
    IF b = <<>> THEN FALSE
    ELSE IF a = <<>> THEN TRUE
    ELSE IF a[1] = b[1] THEN StrLess(Tail(a), Tail(b))
    ELSE Ord(a[1]) < Ord(b[1])

\* t[i:].startswith(w)
StartsAt(t, i, w) ==
    i + Len(w) - 1 <= Len(t) /\ SubSeq(t, i, i + Len(w) - 1) = w

\* t.endswith(w)
EndsWith(t, w) == Len(w) <= Len(t) /\ StartsAt(t, Len(t) - Len(w) + 1, w)

\* w in t, for a non-empty w
Contains(t, w) == \E i \in 1..(Len(t) - Len(w) + 1) : StartsAt(t, i, w)

\* t.find(w) + 1 when w is in t
Find(t, w) ==
    CHOOSE i \in 1..(Len(t) - Len(w) + 1) :
        StartsAt(t, i, w) /\ \A j \in 1..(i - 1) : ~StartsAt(t, j, w)

\* t.replace(old, new), for a non-empty old
RECURSIVE Replace(_, _, _)
Replace(t, old, new) ==
    IF t = <<>> THEN <<>>
    ELSE IF StartsAt(t, 1, old)
    THEN new \o Replace(SubSeq(t, Len(old) + 1, Len(t)), old, new)
    ELSE <<t[1]>> \o Replace(Tail(t), old, new)

\* t.split(sep): the list of the pieces
RECURSIVE Split(_, _)
Split(t, sep) ==
    IF ~Contains(t, sep) THEN <<t>>
    ELSE <<SubSeq(t, 1, Find(t, sep) - 1)>>
         \o Split(SubSeq(t, Find(t, sep) + Len(sep), Len(t)), sep)

\* sep.join(parts)
RECURSIVE Join(_, _)
Join(parts, sep) ==
    IF parts = <<>> THEN <<>>
    ELSE IF Len(parts) = 1 THEN parts[1]
    ELSE parts[1] \o sep \o Join(Tail(parts), sep)

\* the decimal digits, "0" first
Digit == <<"0", "1", "2", "3", "4", "5", "6", "7", "8", "9">>

\* "%s" % n for a natural number n
RECURSIVE Digits(_)
Digits(n) ==
    IF n < 10 THEN <<Digit[n + 1]>> ELSE Digits(n \div 10) \o <<Digit[(n % 10) + 1]>>

\* int(t) for a text of decimal digits
RECURSIVE ToInt(_)
ToInt(t) ==
    IF Len(t) = 1 THEN (CHOOSE d \in DOMAIN Digit : Digit[d] = t[1]) - 1
    ELSE 10 * ToInt(SubSeq(t, 1, Len(t) - 1))
         + (CHOOSE d \in DOMAIN Digit : Digit[d] = t[Len(t)]) - 1

\* the text as one string
RECURSIVE Str(_)
Str(t) ==
    IF t = <<>> THEN ""
    ELSE IF Len(t) = 1 THEN t[1]
    ELSE Str(SubSeq(t, 1, Len(t) \div 2)) \o Str(SubSeq(t, Len(t) \div 2 + 1, Len(t)))

\* ------------------------------------------------------------------------
\* difflib: SequenceMatcher.ratio() and get_close_matches(word, pool, 1, cutoff)
\* ------------------------------------------------------------------------
\* length of the common run of a from i and b from j, inside a[..ahi], b[..bhi]
RECURSIVE RunLen(_, _, _, _, _, _)
RunLen(a, b, i, j, ahi, bhi) ==
    IF i > ahi \/ j > bhi \/ a[i] # b[j] THEN 0
    ELSE 1 + RunLen(a, b, i + 1, j + 1, ahi, bhi)

\* SequenceMatcher.find_longest_match(alo, ahi, blo, bhi) (no junk: autojunk
\* only applies to sequences of 200 items or more): the longest matching
\* block, the one starting earliest in a and then earliest in b
FindLongestMatch(a, b, alo, ahi, blo, bhi) ==
    LET Blocks == {<<i, j, RunLen(a, b, i, j, ahi, bhi)>> :
                       i \in alo..ahi, j \in blo..bhi}
        size == CHOOSE k \in {x[3] : x \in Blocks} : \A y \in Blocks : y[3] <= k
        Longest == {x \in Blocks : x[3] = size}
    IN  IF Blocks = {} THEN <<alo, blo, 0>>
        ELSE IF size = 0 THEN <<alo, blo, 0>>
        ELSE CHOOSE x \in Longest :
                \A y \in Longest : x[1] < y[1] \/ (x[1] = y[1] /\ x[2] <= y[2])

\* total size of SequenceMatcher.get_matching_blocks(): the longest block,
\* then recursively the pieces to its left and to its right
RECURSIVE MatchedLen(_, _, _, _, _, _)
MatchedLen(a, b, alo, ahi, blo, bhi) ==
    LET m == FindLongestMatch(a, b, alo, ahi, blo, bhi)
    IN  IF m[3] = 0 THEN 0
        ELSE m[3]
             + MatchedLen(a, b, alo, m[1] - 1, blo, m[2] - 1)
             + MatchedLen(a, b, m[1] + m[3], ahi, m[2] + m[3], bhi)

\* ratio() = 2.0 * M / T as the exact fraction <<2M, T>>; 1.0 when T = 0
Ratio(a, b) ==
    IF Len(a) + Len(b) = 0 THEN <<1, 1>>
    ELSE <<2 * MatchedLen(a, b, 1, Len(a), 1, Len(b)), Len(a) + Len(b)>>

\* fractions with positive denominators
FracLess(x, y) == x[1] * y[2] < y[1] * x[2]
FracGeq(x, y) == ~FracLess(x, y)

\* cutoff=0.85 of the call in Catalog.update, as a fraction
Cutoff == <<85, 100>>

\* the ratios alone compared, as max(result, key=score) would
ScoredLess_ScoreOnly(p, q) == FracLess(p.score, q.score)

\* (score, x) < (score', x') for the tuples get_close_matches collects
ScoredLess(p, q) ==
    \/ FracLess(p.score, q.score)
    \/ ~FracLess(q.score, p.score) /\ StrLess(p.x, q.x)

\* max() of a non-empty list: the first item no later item exceeds
RECURSIVE MaxScored(_)
MaxScored(result) ==
    IF Len(result) = 1 THEN result[1]
    ELSE LET rest == MaxScored(Tail(result))
         IN  IF ScoredLess(result[1], rest) THEN rest ELSE result[1]

\* the list of (ratio, x) for the x of the pool whose ratio reaches the cutoff
RECURSIVE ScoreAll(_, _, _)
ScoreAll(word, possibilities, cutoff) ==
    IF possibilities = <<>> THEN <<>>
    ELSE LET x == possibilities[1]
             r == Ratio(x, word)
             rest == ScoreAll(word, Tail(possibilities), cutoff)
         IN  IF FracGeq(r, cutoff) THEN <<[score |-> r, x |-> x]>> \o rest
             ELSE rest

\* get_close_matches(word, possibilities, 1, cutoff): a list of at most one
\* text, heapq.nlargest(1, result) being max(result)
GetCloseMatches(word, possibilities, cutoff) ==
    LET result == ScoreAll(word, possibilities, cutoff)
    IN  IF result = <<>> THEN <<>> ELSE <<MaxScored(result).x>>

\* ------------------------------------------------------------------------
\* Values that are a scalar or a tuple: Message.id and Message.string
\* ------------------------------------------------------------------------
Scalar(x) == [tup |-> FALSE, forms |-> <<x>>]
Tuple(xs) == [tup |-> TRUE, forms |-> xs]

\* bool(id): a non-empty text, or a non-empty tuple
IdTruthy(id) == IF id.tup THEN id.forms # <<>> ELSE id.forms[1] # <<>>

\* bool(string): neither None nor "" nor an empty tuple
StrTruthy(string) ==
    IF string.tup THEN string.forms # <<>> ELSE string.forms[1] \notin {None, ""}

\* util.distinct(): the items in order, each kept at its first occurrence
RECURSIVE DistinctFrom(_, _)
DistinctFrom(seen, items) ==
    IF items = <<>> THEN <<>>
    ELSE IF items[1] \in seen THEN DistinctFrom(seen, Tail(items))
    ELSE <<items[1]>> \o DistinctFrom(seen \cup {items[1]}, Tail(items))

distinct(items) == DistinctFrom({}, items)

\* ------------------------------------------------------------------------
\* Message
\* ------------------------------------------------------------------------
\* Message.pluralizable
pluralizable(m) == m.id.tup

\* Message.fuzzy (getter)
fuzzy(m) == "fuzzy" \in m.flags

\* the conversion characters of PYTHON_FORMAT
ConversionChars ==
    {"d", "i", "o", "u", "x", "X", "e", "E", "f", "F", "g", "G", "c", "r", "s", "%"}

\* Message.python_format: a form of the id holds a percent specifier. The
\* optional parts of PYTHON_FORMAT (mapping key, flags, width, precision,
\* length) are not covered: a '%' counts when a conversion character follows
python_format(id) ==
    \E k \in DOMAIN id.forms :
        \E i \in 1..(Len(id.forms[k]) - 1) :
            id.forms[k][i] = "%" /\ id.forms[k][i + 1] \in ConversionChars

\* Message.__init__
Message(id, string, locations, flags, auto_comments, user_comments, previous_id, context, modified) ==
    [id            |-> id,
     string        |-> IF ~StrTruthy(string) /\ id.tup
                       THEN Tuple(<<"", "">>) ELSE string,
     locations     |-> distinct(locations),
     flags         |-> IF IdTruthy(id) /\ python_format(id)
                       THEN flags \cup {"python-format"}
                       ELSE flags \ {"python-format"},
     auto_comments |-> distinct(auto_comments),
     user_comments |-> distinct(user_comments),
     previous_id   |-> previous_id,
     context       |-> context,
     modified      |-> modified]

\* Message.clone(): a new Message built from copies of the fields
clone(m) ==
    Message(m.id, m.string, m.locations, m.flags, m.auto_comments,
            m.user_comments, m.previous_id, m.context, m.modified)

\* ------------------------------------------------------------------------
\* Keys and ordered mappings
\* ------------------------------------------------------------------------
PlainKey(text) == [pair |-> FALSE, id |-> text, ctx |-> None]
PairKey(text, context) == [pair |-> TRUE, id |-> text, ctx |-> context]

\* _key_for testing the truth of the context instead of "is not None"
KeyFor_ContextTruth(id, context) ==
    LET key == IF id.tup THEN id.forms[1] ELSE id.forms[1]
    IN  IF context \notin {None, ""} THEN PairKey(key, context) ELSE PlainKey(key)

\* Catalog._key_for(id, context): the id, or its first item when it is a
\* tuple; paired with the context when the context is not None
KeyFor(id, context) ==
    LET key == IF id.tup THEN id.forms[1] ELSE id.forms[1]
    IN  IF context # None THEN PairKey(key, context) ELSE PlainKey(key)

Keys(d) == {d[i].key : i \in DOMAIN d}
Has(d, k) == \E i \in DOMAIN d : d[i].key = k
IndexOf(d, k) == CHOOSE i \in DOMAIN d : d[i].key = k
\* d.get(k) where k is known to be a key
Get(d, k) == d[IndexOf(d, k)].msg
\* d[k] = m that never finds k: the entry is always appended
Put_Append(d, k, m) == Append(d, [key |-> k, msg |-> m])

\* d[k] = m: in place when k is a key, appended otherwise
Put(d, k, m) ==
    IF Has(d, k) THEN [d EXCEPT ![IndexOf(d, k)] = [key |-> k, msg |-> m]]
    ELSE Append(d, [key |-> k, msg |-> m])
\* remaining.get(oldkey) in place of remaining.pop(oldkey): the key stays
Without_Get(d, k) == d

\* d without key k
Without(d, k) ==
    IF Has(d, k)
    THEN SubSeq(d, 1, IndexOf(d, k) - 1) \o SubSeq(d, IndexOf(d, k) + 1, Len(d))
    ELSE d

\* ------------------------------------------------------------------------
\* Catalog
\* ------------------------------------------------------------------------
\* the default header comment text
DEFAULT_HEADER == <<"DEFAULT_HEADER">>

\* the texts Catalog.__init__ puts in place of missing arguments
PROJECT == <<"P", "R", "O", "J", "E", "C", "T">>
VERSION == <<"V", "E", "R", "S", "I", "O", "N">>
ORGANIZATION == <<"O", "R", "G", "A", "N", "I", "Z", "A", "T", "I", "O", "N">>
EMAIL_ADDRESS == <<"E", "M", "A", "I", "L", "@", "A", "D", "D", "R", "E", "S", "S">>
FULL_NAME == 
    <<"F", "U", "L", "L", " ", "N", "A", "M", "E", " ", "<", "E", "M", "A",
      "I", "L", "@", "A", "D", "D", "R", "E", "S", "S", ">">>
LANGUAGE_TEAM == 
    <<"L", "A", "N", "G", "U", "A", "G", "E", " ", "<", "L", "L", "@", "l",
      "i", ".", "o", "r", "g", ">">>
utf_8 == <<"u", "t", "f", "-", "8">>

\* the locale argument of a catalog: None, a Locale object, or an identifier
NoLocale == [kind |-> "None", locale |-> None, text |-> <<>>]
LocaleObject(locale) == [kind |-> "Locale", locale |-> locale, text |-> <<>>]
LocaleString(text) == [kind |-> "str", locale |-> None, text |-> text]

\* Locale.parse(identifier): the Locale of an identifier it knows, None
\* standing for UnknownLocaleError
LocaleParse(text) ==
    CASE text = <<"d", "e">> -> "de"
      [] text = <<"j", "a">> -> "ja"
      [] text = <<"g", "a">> -> "ga"
      [] text = <<"d", "e", "_", "D", "E">> -> "de_DE"
      [] OTHER -> None

\* str(locale) of a Locale object
LocaleStr(locale) ==
    CASE locale = "de" -> <<"d", "e">>
      [] locale = "ja" -> <<"j", "a">>
      [] locale = "ga" -> <<"g", "a">>
      [] locale = "de_DE" -> <<"d", "e", "_", "D", "E">>

\* Catalog._set_locale(locale). A field that is None or a text is a list of
\* at most one text, None being the empty list
SetLocale(c, locale) ==
    CASE locale.kind = "None" ->
            [c EXCEPT !.locale_identifier = <<>>, !.locale = None]
      [] locale.kind = "Locale" ->
            [c EXCEPT !.locale_identifier = <<LocaleStr(locale.locale)>>,
                      !.locale = locale.locale]
      [] locale.kind = "str" ->
            [c EXCEPT !.locale_identifier = <<locale.text>>,
                      !.locale = LocaleParse(locale.text)]

\* x or default, for a text argument: None and "" are both the empty text
Or(x, default) == IF x = <<>> THEN default ELSE x

\* the arguments of Catalog() at their defaults; a creation or revision date
\* left out is the time of the call
Defaults ==
    [locale |-> NoLocale, domain |-> None, header_comment |-> DEFAULT_HEADER,
     project |-> <<>>, version |-> <<>>, copyright_holder |-> <<>>,
     msgid_bugs_address |-> <<>>, creation_date |-> "now",
     revision_date |-> [datetime |-> TRUE, text |-> <<>>],
     last_translator |-> <<>>, language_team |-> <<>>, charset |-> <<>>,
     fuzzy |-> TRUE, filename |-> <<>>]

\* Catalog.__init__ with the arguments a: empty mappings, no cached plural
\* values. original_header and modified, which nothing here reads, are left
\* out
CatalogWith(a) ==
    SetLocale([domain             |-> a.domain,
               locale             |-> None,
               locale_identifier  |-> <<>>,
               header_comment     |-> [text |-> a.header_comment, rendered |-> <<>>],
               messages           |-> <<>>,
               project            |-> Or(a.project, PROJECT),
               version            |-> Or(a.version, VERSION),
               copyright_holder   |-> Or(a.copyright_holder, ORGANIZATION),
               msgid_bugs_address |-> Or(a.msgid_bugs_address, EMAIL_ADDRESS),
               last_translator    |-> Or(a.last_translator, FULL_NAME),
               language_team      |-> Or(a.language_team, LANGUAGE_TEAM),
               charset            |-> Or(a.charset, utf_8),
               creation_date      |-> a.creation_date,
               revision_date      |-> a.revision_date,
               fuzzy              |-> a.fuzzy,
               filename           |-> a.filename,
               new                |-> <<>>,
               orphans            |-> <<>>,
               obsolete           |-> <<>>,
               num_plurals        |-> <<>>,
               plural_expr        |-> <<>>],
              a.locale)

\* Catalog(locale, creation_date): a catalog of a Locale, or of none
Catalog(locale, creation_date) ==
    CatalogWith([Defaults EXCEPT
                    !.locale = IF locale = None THEN NoLocale
                               ELSE LocaleObject(locale),
                    !.creation_date = creation_date])

\* plurals.get_plural(locale)[0]: the number of plural forms of a locale
get_plural(locale) == IF locale = "ja" THEN 1 ELSE IF locale = "ga" THEN 5 ELSE 2

\* plurals.get_plural(locale)[1]: the plural expression of a locale
get_plural_expr(locale) ==
    IF locale = "ja" THEN <<"0">>
    ELSE IF locale = "ga"
    THEN 
    <<"(", "n", "=", "=", "1", " ", "?", " ", "0", " ", ":", " ", "n", "=",
      "=", "2", " ", "?", " ", "1", " ", ":", " ", "n", ">", "=", "3", " ",
      "&", "&", " ", "n", "<", "=", "6", " ", "?", " ", "2", " ", ":", " ",
      "n", ">", "=", "7", " ", "&", "&", " ", "n", "<", "=", "1", "0", " ",
      "?", " ", "3", " ", ":", " ", "4", ")">>
    ELSE <<"(", "n", " ", "!", "=", " ", "1", ")">>

\* Catalog.num_plurals: the cached value, else 2 without a locale, else the
\* locale's
num_plurals(c) ==
    IF c.num_plurals # <<>> THEN c.num_plurals[1]
    ELSE IF c.locale # None THEN get_plural(c.locale) ELSE 2

\* the catalog after num_plurals was read: the value is cached
CachePlurals(c) == [c EXCEPT !.num_plurals = <<num_plurals(c)>>]

\* Catalog.plural_expr: the cached value, else "(n != 1)" without a locale,
\* else the locale's
plural_expr(c) ==
    IF c.plural_expr # <<>> THEN c.plural_expr[1]
    ELSE IF c.locale # None THEN get_plural_expr(c.locale) ELSE <<"(", "n", " ", "!", "=", " ", "1", ")">>

\* Catalog.plural_forms
plural_forms(c) ==
    <<"n", "p", "l", "u", "r", "a", "l", "s", "=">> \o Digits(num_plurals(c)) \o <<";", " ", "p", "l", "u", "r", "a", "l", "=">> \o plural_expr(c)

\* the catalog after plural_forms was read: both values are cached
CachePluralForms(c) ==
    [c EXCEPT !.num_plurals = <<num_plurals(c)>>,
              !.plural_expr = <<plural_expr(c)>>]

\* Catalog.header_comment (getter): the text with PROJECT, VERSION, YEAR and
\* ORGANIZATION replaced and the locale name put in; rendered records the
\* locale name of the first rendering, a rendered text having nothing left
\* to replace
GetHeaderComment(c) ==
    [text     |-> c.header_comment.text,
     rendered |-> IF c.header_comment.rendered = <<>> THEN <<c.locale>>
                  ELSE c.header_comment.rendered]

\* ------------------------------------------------------------------------
\* The header fields
\* ------------------------------------------------------------------------
LANGUAGE == <<"L", "A", "N", "G", "U", "A", "G", "E">>
CHARSET == <<"c", "h", "a", "r", "s", "e", "t">>

\* what datetime.now(...).strftime(...) gives: the time of the call, which
\* the setter of the fields does not read
Now == <<"N", "O", "W">>

Header(name, value) == [name |-> name, value |-> value]

\* Catalog._get_mime_headers: the list of (name, value)
GetMimeHeaders(c) ==
    <<Header(
    <<"P", "r", "o", "j", "e", "c", "t", "-", "I", "d", "-", "V", "e", "r",
      "s", "i", "o", "n">>, c.project \o <<" ">> \o c.version),
      Header(
    <<"R", "e", "p", "o", "r", "t", "-", "M", "s", "g", "i", "d", "-", "B",
      "u", "g", "s", "-", "T", "o">>, c.msgid_bugs_address),
      Header(
    <<"P", "O", "T", "-", "C", "r", "e", "a", "t", "i", "o", "n", "-", "D",
      "a", "t", "e">>, Now),
      Header(
    <<"P", "O", "-", "R", "e", "v", "i", "s", "i", "o", "n", "-", "D", "a",
      "t", "e">>,
             IF c.revision_date.datetime THEN Now ELSE c.revision_date.text),
      Header(
    <<"L", "a", "s", "t", "-", "T", "r", "a", "n", "s", "l", "a", "t", "o",
      "r">>, c.last_translator)>>
    \o (IF c.locale_identifier \notin {<<>>, <<<<>>>>}
        THEN <<Header(<<"L", "a", "n", "g", "u", "a", "g", "e">>, c.locale_identifier[1])>> ELSE <<>>)
    \o (IF c.locale_identifier \notin {<<>>, <<<<>>>>}
           /\ Contains(c.language_team, LANGUAGE)
        THEN <<Header(<<"L", "a", "n", "g", "u", "a", "g", "e", "-", "T", "e", "a", "m">>,
                      Replace(c.language_team, LANGUAGE, c.locale_identifier[1]))>>
        ELSE <<Header(<<"L", "a", "n", "g", "u", "a", "g", "e", "-", "T", "e", "a", "m">>, c.language_team)>>)
    \o (IF c.locale # None
        THEN <<Header(<<"P", "l", "u", "r", "a", "l", "-", "F", "o", "r", "m", "s">>, plural_forms(c))>> ELSE <<>>)
    \o <<Header(<<"M", "I", "M", "E", "-", "V", "e", "r", "s", "i", "o", "n">>, <<"1", ".", "0">>),
         Header(<<"C", "o", "n", "t", "e", "n", "t", "-", "T", "y", "p", "e">>, 
    <<"t", "e", "x", "t", "/", "p", "l", "a", "i", "n", ";", " ", "c", "h",
      "a", "r", "s", "e", "t", "=">> \o c.charset),
         Header(
    <<"C", "o", "n", "t", "e", "n", "t", "-", "T", "r", "a", "n", "s", "f",
      "e", "r", "-", "E", "n", "c", "o", "d", "i", "n", "g">>, <<"8", "b", "i", "t">>),
         Header(<<"G", "e", "n", "e", "r", "a", "t", "e", "d", "-", "B", "y">>, <<"P", "o", "b", "o", "y", " ", "0", ".", "0", ".", "1", "\n">>)>>

\* reading the header fields as a read that uses the messages up
AfterMimeHeaders_Consumed(c) == [c EXCEPT !.messages = <<>>]

\* the catalog after its header fields were read: plural_forms is read, and
\* caches the plural values, when there is a Locale
AfterMimeHeaders(c) == IF c.locale # None THEN CachePluralForms(c) ELSE c

\* one "name=value" parameter of cgi.parse_header, as a list of at most one
\* [name, value]; quoted values are not covered
Param(p) ==
    IF Contains(p, <<"=">>)
    THEN <<[name |-> Lower(Strip(SubSeq(p, 1, Find(p, <<"=">>) - 1))),
            value |-> Strip(SubSeq(p, Find(p, <<"=">>) + 1, Len(p)))]>>
    ELSE <<>>

RECURSIVE Params(_)
Params(pieces) ==
    IF pieces = <<>> THEN <<>> ELSE Param(Strip(pieces[1])) \o Params(Tail(pieces))

\* cgi.parse_header(line)[1]: the parameters after the first ";"
ParseHeader(line) == Params(Tail(Split(line, <<";">>)))

\* every parameter looked up gives the default
ParamGet_Default(params, name, default) == default

\* params.get(name, default) of the dict of the parameters: a name met again
\* takes the later value
RECURSIVE ParamGet(_, _, _)
ParamGet(params, name, default) ==
    IF params = <<>> THEN default
    ELSE IF params[Len(params)].name = name THEN params[Len(params)].value
    ELSE ParamGet(SubSeq(params, 1, Len(params) - 1), name, default)

\* one turn of the loop of Catalog._set_mime_headers
SetMimeHeader(c, name, value) ==
    CASE name = 
    <<"p", "r", "o", "j", "e", "c", "t", "-", "i", "d", "-", "v", "e", "r",
      "s", "i", "o", "n">> ->
            [c EXCEPT
                !.project = Join(SubSeq(Split(value, <<" ">>), 1,
                                        Len(Split(value, <<" ">>)) - 1), <<" ">>),
                !.version = Split(value, <<" ">>)[Len(Split(value, <<" ">>))]]
      [] name = 
    <<"r", "e", "p", "o", "r", "t", "-", "m", "s", "g", "i", "d", "-", "b",
      "u", "g", "s", "-", "t", "o">> -> [c EXCEPT !.msgid_bugs_address = value]
      [] name = 
    <<"l", "a", "s", "t", "-", "t", "r", "a", "n", "s", "l", "a", "t", "o",
      "r">> -> [c EXCEPT !.last_translator = value]
      [] name = <<"l", "a", "n", "g", "u", "a", "g", "e">> ->
            SetLocale(c, LocaleString(Replace(value, <<"-">>, <<"_">>)))
      [] name = <<"l", "a", "n", "g", "u", "a", "g", "e", "-", "t", "e", "a", "m">> -> [c EXCEPT !.language_team = value]
      [] name = <<"c", "o", "n", "t", "e", "n", "t", "-", "t", "y", "p", "e">> ->
            IF \E i \in DOMAIN ParseHeader(value) :
                  ParseHeader(value)[i].name = CHARSET
            THEN [c EXCEPT !.charset = Lower(ParamGet(ParseHeader(value),
                                                      CHARSET, <<>>))]
            ELSE c
      [] name = <<"p", "l", "u", "r", "a", "l", "-", "f", "o", "r", "m", "s">> ->
            [c EXCEPT
                !.num_plurals =
                    <<ToInt(ParamGet(ParseHeader(<<" ", ";">> \o value),
                                     <<"n", "p", "l", "u", "r", "a", "l", "s">>, <<"2">>))>>,
                !.plural_expr =
                    <<ParamGet(ParseHeader(<<" ", ";">> \o value),
                               <<"p", "l", "u", "r", "a", "l">>, <<"(", "n", " ", "!", "=", " ", "1", ")">>)>>]
      [] OTHER -> c

\* Catalog._set_mime_headers(headers)
RECURSIVE SetMimeHeaders(_, _)
SetMimeHeaders(c, headers) ==
    IF headers = <<>> THEN c
    ELSE SetMimeHeaders(SetMimeHeader(c, Lower(headers[1].name), headers[1].value),
                        Tail(headers))

\* one line of a header block, as a list of at most one (name, value)
HeaderLine(line) ==
    IF Contains(line, <<":">>)
    THEN <<Header(SubSeq(line, 1, Find(line, <<":">>) - 1),
                  LStrip(SubSeq(line, Find(line, <<":">>) + 1, Len(line))))>>
    ELSE <<>>

\* the lines before the first empty one
RECURSIVE HeaderLines(_)
HeaderLines(lines) ==
    IF lines = <<>> \/ lines[1] = <<>> THEN <<>>
    ELSE HeaderLine(lines[1]) \o HeaderLines(Tail(lines))

\* email.message_from_string(text).items(), for a block of "Name: value"
\* lines; folded lines are not covered
ParseMessage(text) == HeaderLines(Split(text, <<"\n">>))

\* the header blocks that messages of empty id are given
HeaderTexts ==
    {
    <<"P", "r", "o", "j", "e", "c", "t", "-", "I", "d", "-", "V", "e", "r",
      "s", "i", "o", "n", ":", " ", "p", "o", "b", "o", "y", " ", "1", ".",
      "0", " ", "b", "e", "t", "a", "\n", "L", "a", "n", "g", "u", "a",
      "g", "e", ":", " ", "j", "a", "-", "J", "P", "\n", "X", "-", "U",
      "n", "k", "n", "o", "w", "n", ":", " ", "1", "\n">>,
     
    <<"P", "L", "U", "R", "A", "L", "-", "F", "O", "R", "M", "S", ":", " ",
      "n", "p", "l", "u", "r", "a", "l", "s", "=", "3", ";", " ", "p", "l",
      "u", "r", "a", "l", "=", "0", "\n", "C", "o", "n", "t", "e", "n",
      "t", "-", "T", "y", "p", "e", ":", " ", "t", "e", "x", "t", "/", "p",
      "l", "a", "i", "n", ";", " ", "c", "h", "a", "r", "s", "e", "t", "=",
      "U", "T", "F", "-", "8", "\n">>}

\* the text of a string that holds a header block
TextOf(string) == CHOOSE text \in HeaderTexts : Str(text) = string

\* message_from_string(message.string).items()
MessageFromString(string) ==
    IF string.forms[1] \in {None, ""} THEN <<>>
    ELSE ParseMessage(TextOf(string.forms[1]))

\* the header block of a catalog: "\n".join of the "name: value" lines
HeaderBlock(headers) ==
    Join([i \in DOMAIN headers |-> headers[i].name \o <<":", " ">> \o headers[i].value],
         <<"\n">>)

\* an assignment that replaces the entry of the key by the incoming message
SetItem_Overwrite(c, id, message) ==
    [c |-> [c EXCEPT !.messages =
                        Put(c.messages, KeyFor(id, message.context), message)],
     raised |-> FALSE]

\* Catalog.__setitem__(id, message): [c |-> the catalog afterwards,
\* raised |-> whether the assertion of line 745 failed]
SetItem(c, id, message) ==
    LET key == KeyFor(id, message.context)
    IN  IF Has(c.messages, key)
        THEN LET current == Get(c.messages, key)
                 upgraded ==
                     IF pluralizable(message) /\ ~pluralizable(current)
                     THEN [current EXCEPT !.id = message.id,
                                          !.string = message.string,
                                          !.modified = TRUE]
                     ELSE current
                 merged ==
                     [upgraded EXCEPT
                        !.locations = distinct(current.locations \o message.locations),
                        !.auto_comments =
                            distinct(current.auto_comments \o message.auto_comments),
                        !.user_comments =
                            distinct(current.user_comments \o message.user_comments),
                        !.flags = current.flags \cup message.flags]
             IN  [c |-> [c EXCEPT !.messages = Put(c.messages, key, merged)],
                  raised |-> FALSE]
        ELSE IF id = Scalar(<<>>)
        THEN \* the header message: its fields, comments and fuzzy bit go to
             \* the catalog
             [c |-> [SetMimeHeaders(c, MessageFromString(message.string)) EXCEPT
                        !.header_comment =
                            [text |-> message.user_comments, rendered |-> <<>>],
                        !.fuzzy = fuzzy(message)],
              raised |-> FALSE]
        ELSE IF id.tup /\ ~message.string.tup
        THEN [c |-> c, raised |-> TRUE]
        ELSE [c |-> [c EXCEPT !.messages = Put(c.messages, key, message)],
              raised |-> FALSE]

\* ------------------------------------------------------------------------
\* Catalog.update(template, no_fuzzy_matching, update_header_comment,
\*                keep_user_comments)
\* ------------------------------------------------------------------------
\* fuzzy_candidates: the dict from _key_for(msgid) to the context of the
\* message, over the old keys whose message has a translation; a key met
\* again keeps its place and takes the later context
RECURSIVE FuzzyCandidates(_, _)
FuzzyCandidates(messages, acc) ==
    IF messages = <<>> THEN acc
    ELSE LET msgid == messages[1].key
             m == messages[1].msg
             rest == Tail(messages)
         IN  IF (msgid.pair \/ msgid.id # <<>>) /\ StrTruthy(m.string)
             THEN FuzzyCandidates(rest, Put(acc, msgid.id, m.context))
             ELSE FuzzyCandidates(rest, acc)

\* the texts of the pool, in the order get_close_matches is given them
PoolKeys(candidates) == [i \in DOMAIN candidates |-> candidates[i].key]

\* _merge without the padding of line 943: the scalar alone in a tuple
Reconcile_NoPadding(id, string, oldstring, np) ==
    IF id.tup
    THEN IF ~string.tup
         THEN [string |-> Tuple(<<string.forms[1]>>),
               fuzzy |-> TRUE, read |-> FALSE, raised |-> FALSE]
         ELSE IF Len(string.forms) # np
         THEN [string |-> Tuple(SubSeq(string.forms, 1, Len(oldstring.forms))),
               fuzzy |-> TRUE, read |-> TRUE, raised |-> FALSE]
         ELSE [string |-> string, fuzzy |-> FALSE, read |-> TRUE, raised |-> FALSE]
    ELSE IF string.tup
    THEN IF string.forms = <<>>
         THEN [string |-> string, fuzzy |-> TRUE, read |-> FALSE, raised |-> TRUE]
         ELSE [string |-> Scalar(string.forms[1]),
               fuzzy |-> TRUE, read |-> FALSE, raised |-> FALSE]
    ELSE [string |-> string, fuzzy |-> FALSE, read |-> FALSE, raised |-> FALSE]

\* the string reconciled with the shape of the id, in _merge: [string,
\* fuzzy |-> whether the fuzzy flag is forced, read |-> whether num_plurals
\* was read, raised |-> whether indexing the string failed]
Reconcile(id, string, oldstring, np) ==
    IF id.tup
    THEN IF ~string.tup
         THEN [string |-> Tuple(<<string.forms[1]>>
                                \o [i \in 1..(Len(id.forms) - 1) |-> ""]),
               fuzzy |-> TRUE, read |-> FALSE, raised |-> FALSE]
         ELSE IF Len(string.forms) # np
         THEN [string |-> Tuple(SubSeq(string.forms, 1, Len(oldstring.forms))),
               fuzzy |-> TRUE, read |-> TRUE, raised |-> FALSE]
         ELSE [string |-> string, fuzzy |-> FALSE, read |-> TRUE, raised |-> FALSE]
    ELSE IF string.tup
    THEN IF string.forms = <<>>
         THEN [string |-> string, fuzzy |-> TRUE, read |-> FALSE, raised |-> TRUE]
         ELSE [string |-> Scalar(string.forms[1]),
               fuzzy |-> TRUE, read |-> FALSE, raised |-> FALSE]
    ELSE [string |-> string, fuzzy |-> FALSE, read |-> FALSE, raised |-> FALSE]

\* the previous_id a fuzzy merge gives the message
PreviousId(oldmsg) ==
    IF ~oldmsg.id.tup THEN <<oldmsg.id.forms[1]>> ELSE oldmsg.id.forms

\* _merge without line 937: the string of the old message is not taken over
Inherit_NoString(message, oldmsg, renamed, keep_user_comments) ==
    [clone(message) EXCEPT
        !.previous_id = IF renamed THEN PreviousId(oldmsg) ELSE @,
        !.modified = TRUE,
        !.user_comments = IF keep_user_comments
                          THEN distinct(oldmsg.user_comments) ELSE @]

\* _merge, lines 925-939: the clone of the template message with the
\* previous_id (fuzzy path only), string and user comments of the old one
Inherit(message, oldmsg, renamed, keep_user_comments) ==
    [clone(message) EXCEPT
        !.previous_id = IF renamed THEN PreviousId(oldmsg) ELSE @,
        !.string = oldmsg.string,
        !.modified = TRUE,
        !.user_comments = IF keep_user_comments
                          THEN distinct(oldmsg.user_comments) ELSE @]

\* _merge without line 953: the flags of the old message are not taken over
Flagged_OwnFlags(m, oldmsg, rec, force) ==
    [m EXCEPT !.string = rec.string,
              !.flags = IF force \/ rec.fuzzy THEN @ \cup {"fuzzy"} ELSE @]

\* _merge, lines 941-955: the reconciled string, the flags of the old
\* message, and the fuzzy flag when it is forced
Flagged(m, oldmsg, rec, force) ==
    [m EXCEPT !.string = rec.string,
              !.flags = IF force \/ rec.fuzzy
                        THEN @ \cup oldmsg.flags \cup {"fuzzy"}
                        ELSE @ \cup oldmsg.flags]

\* the state of the pass after _merge: st.c the catalog, st.remaining,
\* st.fuzzy_matches, st.raised, and st.trace, the record of what was done
\* with each template message
Merged(st, message, oldmsg, oldkey, newkey, rec, set) ==
    [c |-> IF rec.raised
           THEN (IF rec.read THEN CachePlurals(st.c) ELSE st.c) ELSE set.c,
     remaining |-> IF oldkey # newkey THEN st.remaining
                   ELSE Without(st.remaining, oldkey),
     fuzzy_matches |-> IF oldkey # newkey
                       THEN st.fuzzy_matches \cup {oldkey} ELSE st.fuzzy_matches,
     trace |-> Append(st.trace,
                      [key |-> newkey, oldkey |-> oldkey,
                       path |-> IF oldkey # newkey THEN "fuzzy" ELSE "exact",
                       old |-> <<oldmsg>>, tmsg |-> message,
                       raised |-> rec.raised \/ set.raised]),
     raised |-> rec.raised \/ set.raised]

MergeStore(st, message, oldmsg, oldkey, newkey, force, m, rec) ==
    Merged(st, message, oldmsg, oldkey, newkey, rec,
           SetItem(IF rec.read THEN CachePlurals(st.c) ELSE st.c, m.id,
                   Flagged(m, oldmsg, rec, force)))

MergeInherited(st, message, oldmsg, oldkey, newkey, force, m) ==
    MergeStore(st, message, oldmsg, oldkey, newkey, force, m,
               Reconcile(m.id, m.string, oldmsg.string, num_plurals(st.c)))

\* _merge(message, oldkey, newkey, fuzzy) on the state st of the pass; an
\* exact merge of a key that an earlier message of the template already
\* popped finds None and ends in AttributeError
Merge(st, messages, message, oldkey, newkey, force, keep_user_comments) ==
    IF oldkey = newkey /\ ~Has(st.remaining, oldkey)
    THEN [st EXCEPT !.raised = TRUE,
                    !.trace = Append(@, [key |-> newkey, oldkey |-> oldkey,
                                         path |-> "exact", old |-> <<>>,
                                         tmsg |-> message, raised |-> TRUE])]
    ELSE
    MergeInherited(st, message,
                   IF oldkey # newkey THEN Get(messages, oldkey)
                   ELSE Get(st.remaining, oldkey),
                   oldkey, newkey, force \/ oldkey # newkey,
                   Inherit(message,
                           IF oldkey # newkey THEN Get(messages, oldkey)
                           ELSE Get(st.remaining, oldkey),
                           oldkey # newkey, keep_user_comments))

\* the old key a fuzzy search gives a template key, as a list of at most one
FuzzyMatch(key, candidates) ==
    LET matchkey == key.id
        matches == GetCloseMatches(Strip(Lower(matchkey)), PoolKeys(candidates),
                                   Cutoff)
    IN  IF matches = <<>> THEN <<>>
        ELSE LET newkey == matches[1]
                 newctxt == Get(candidates, newkey)
             IN  IF newctxt # None THEN <<PairKey(newkey, newctxt)>>
                 ELSE <<PlainKey(newkey)>>

\* a store that strips the template message of its string, its flags and its
\* previous id before it is kept
StoreNew_Untranslated(st, message, key, set) ==
    [st EXCEPT !.c = IF set.raised THEN set.c
                     ELSE [set.c EXCEPT !.messages =
                              Put(@, key, [Get(@, key) EXCEPT !.string = Scalar(None),
                                                              !.flags = {},
                                                              !.previous_id = <<>>])],
               !.raised = set.raised,
               !.trace = Append(@, [key |-> key, oldkey |-> key, path |-> "new",
                                    old |-> <<>>, tmsg |-> message,
                                    raised |-> set.raised])]

\* the template message stored as it is, when nothing matches it
StoreNew(st, message, key, set) ==
    [st EXCEPT !.c = set.c,
               !.raised = set.raised,
               !.trace = Append(@, [key |-> key, oldkey |-> key, path |-> "new",
                                    old |-> <<>>, tmsg |-> message,
                                    raised |-> set.raised])]

MergeOrStore(st, messages, message, key, found, keep_user_comments) ==
    IF Has(messages, key)
    THEN Merge(st, messages, message, key, key, FALSE, keep_user_comments)
    ELSE IF found # <<>>
    THEN Merge(st, messages, message, found[1], key, TRUE, keep_user_comments)
    ELSE StoreNew(st, message, key, SetItem(st.c, message.id, message))

\* the body of the loop over the template, for one message of it
UpdateStep(st, messages, candidates, message, no_fuzzy_matching, keep_user_comments) ==
    IF ~IdTruthy(message.id) THEN st
    ELSE MergeOrStore(st, messages, message,
                      KeyFor(message.id, message.context),
                      IF no_fuzzy_matching
                         \/ Has(messages, KeyFor(message.id, message.context))
                      THEN <<>>
                      ELSE FuzzyMatch(KeyFor(message.id, message.context),
                                      candidates),
                      keep_user_comments)

\* the loop over the template; an exception ends it
RECURSIVE UpdateLoop(_, _, _, _, _, _)
UpdateLoop(st, messages, candidates, todo, no_fuzzy_matching, keep_user_comments) ==
    IF todo = <<>> \/ st.raised THEN st
    ELSE UpdateLoop(UpdateStep(st, messages, candidates, todo[1],
                               no_fuzzy_matching, keep_user_comments),
                    messages, candidates, Tail(todo), no_fuzzy_matching,
                    keep_user_comments)

\* the final loop without the test of fuzzy_matches
IsObsolete_Always(msgid, fuzzy_matches, no_fuzzy_matching) == TRUE

\* whether the final loop moves the remaining old key msgid to obsolete
IsObsolete(msgid, fuzzy_matches, no_fuzzy_matching) ==
    no_fuzzy_matching \/ msgid \notin fuzzy_matches

\* the final loop over remaining: the obsolete mapping afterwards
RECURSIVE MarkObsolete(_, _, _, _)
MarkObsolete(obsolete, remaining, fuzzy_matches, no_fuzzy_matching) ==
    IF remaining = <<>> THEN obsolete
    ELSE LET msgid == remaining[1].key
             message == remaining[1].msg
             rest == Tail(remaining)
         IN  IF IsObsolete(msgid, fuzzy_matches, no_fuzzy_matching)
             THEN MarkObsolete(Put(obsolete, msgid,
                                   [message EXCEPT !.modified = TRUE]),
                               rest, fuzzy_matches, no_fuzzy_matching)
             ELSE MarkObsolete(obsolete, rest, fuzzy_matches, no_fuzzy_matching)

\* the messages iterating a catalog yields after the synthesized header
Stored(c) == [i \in DOMAIN c.messages |-> c.messages[i].msg]

\* the message of empty id that iterating a catalog yields first
HeaderMessage(c) ==
    Message(Scalar(<<>>), Scalar(Str(HeaderBlock(GetMimeHeaders(c)))), <<>>,
            IF c.fuzzy THEN {"fuzzy"} ELSE {}, <<>>, <<>>, <<>>, None, FALSE)

\* Catalog.__iter__: what iterating a catalog yields
Iterate(c) == <<HeaderMessage(c)>> \o Stored(c)

\* a pass that snapshots the main mapping and does not clear it
StartPass_NoClear(c) ==
    [c |-> [c EXCEPT !.new = <<>>, !.orphans = <<>>],
     remaining |-> c.messages,
     fuzzy_matches |-> {},
     trace |-> <<>>,
     raised |-> FALSE]

\* the start of a pass: the main mapping snapshotted and cleared, new and
\* orphans cleared
StartPass(c) ==
    [c |-> [c EXCEPT !.messages = <<>>, !.new = <<>>, !.orphans = <<>>],
     remaining |-> c.messages,
     fuzzy_matches |-> {},
     trace |-> <<>>,
     raised |-> FALSE]

\* the end of a pass that met no exception: the obsolete entries, the
\* header comment when asked for, the creation date of the template
EndPass(st, template, no_fuzzy_matching, update_header_comment) ==
    IF st.raised THEN st
    ELSE [st EXCEPT
            !.c = [st.c EXCEPT
                     !.obsolete = MarkObsolete(@, st.remaining, st.fuzzy_matches,
                                               no_fuzzy_matching),
                     !.header_comment = IF update_header_comment
                                        THEN GetHeaderComment(template) ELSE @,
                     !.creation_date = template.creation_date]]

\* Catalog.update as a whole: the pass state at its end, st.c being the
\* catalog afterwards
update(c, template, no_fuzzy_matching, update_header_comment, keep_user_comments) ==
    EndPass(UpdateLoop(StartPass(c), c.messages,
                       IF no_fuzzy_matching THEN <<>>
                       ELSE FuzzyCandidates(c.messages, <<>>),
                       Stored(template), no_fuzzy_matching, keep_user_comments),
            template, no_fuzzy_matching, update_header_comment)

\* ------------------------------------------------------------------------
\* Inputs
\* ------------------------------------------------------------------------
Color == <<"C", "o", "l", "o", "r">>
color == <<"c", "o", "l", "o", "r">>
colou == <<"c", "o", "l", "o", "u">>
colour == <<"c", "o", "l", "o", "u", "r">>
colors == <<"c", "o", "l", "o", "r", "s">>
colours == <<"c", "o", "l", "o", "u", "r", "s">>
Colour == <<"C", "o", "l", "o", "u", "r">>
Colours == <<"C", "o", "l", "o", "u", "r", "s">>

\* the translation a translator gave a msgid
Translation(id) ==
    CASE id = Color -> "Couleur"
      [] id = color -> "couleur"
      [] id = colou -> "coulou"
      [] id = colour -> "couleurs"
      [] OTHER -> "Farbe"

\* the arguments of a call of Catalog.add
Args(id, string, flags, context, where) ==
    [id |-> id, string |-> string, flags |-> flags, context |-> context,
     locations |-> <<where>>, auto_comments |-> <<>>,
     user_comments |-> IF where = "a.py" THEN <<"checked">> ELSE <<>>,
     previous_id |-> <<>>]

\* what a translated catalog is given: translated and untranslated messages,
\* with and without a context
CatalogArgs ==
    {Args(Scalar(id), Scalar(Translation(id)), {}, None, "a.py") :
        id \in {Color, color}}
    \cup {Args(Scalar(color), Scalar("en couleur"), {}, ctx, "a.py") :
        ctx \in {"", "menu"}}
    \cup {Args(Scalar(color), Scalar(None), {}, None, "a.py"),
          Args(Tuple(<<color, colors>>), Tuple(<<"couleur", "couleurs">>), {},
               None, "a.py")}

\* what an extracted template is given: untranslated messages
TemplateArgs ==
    {Args(Scalar(id), Scalar(None), {}, ctx, "b.py") :
        id \in {color, Colour}, ctx \in {None, "menu"}}
    \cup {Args(Tuple(<<color, colours>>), Scalar(None), {}, None, "b.py")}

\* msgids that differ by a letter or two, each with its translation, and the
\* template's msgids for them, one with a trailing blank
NameCatalogArgs ==
    {Args(Scalar(id), Scalar(Translation(id)), {}, None, "a.py") :
        id \in {Color, color, colou, colour}}

NameTemplateArgs ==
    {Args(Scalar(id), Scalar(None), {}, None, "b.py") :
        id \in {color, Colour, Colour \o <<" ">>}}

\* messages whose string does not fit the shape of their id, and messages
\* already flagged fuzzy
ShapeCatalogArgs ==
    {Args(Scalar(color), string, {}, None, "a.py") :
        string \in {Scalar("couleur"), Scalar(None), Tuple(<<>>),
                    Tuple(<<"couleur", "couleurs">>)}}
    \cup {Args(Tuple(<<color, colors>>), Tuple(forms), {}, None, "a.py") :
        forms \in {<<"couleur">>, <<"couleur", "couleurs">>,
                   <<"couleur", "couleurs", "couleurs3">>}}
    \cup {Args(Scalar(color), Scalar("couleur"), {"fuzzy"}, None, "a.py"),
          Args(Scalar(Colour), Tuple(<<"Couleur", "Couleurs">>), {}, None, "a.py")}

ShapeTemplateArgs ==
    {Args(id, Scalar(None), {}, None, "b.py") :
        id \in {Scalar(color), Scalar(Colour), Tuple(<<color, colors>>),
                Tuple(<<Colour, Colours>>)}}
    \cup {Args(Scalar(color), Scalar("draft"), {"fuzzy"}, None, "b.py"),
          Args(Tuple(<<Colour, Colours>>), Scalar("draft"), {}, None, "b.py")}

\* the locales a translated catalog is created with
Locales == {"de", "ja"}

\* ------------------------------------------------------------------------
\* The state machine
\* ------------------------------------------------------------------------
\* Catalog.add(...): the Message is built and assigned under its id
add(c, a) ==
    SetItem(c, a.id,
            Message(a.id, a.string, a.locations, a.flags, a.auto_comments,
                    a.user_comments, a.previous_id, a.context, FALSE))

NoUpdate ==
    [pre |-> <<>>, no_fuzzy_matching |-> FALSE, update_header_comment |-> FALSE,
     keep_user_comments |-> FALSE, trace |-> <<>>, fuzzy_matches |-> {},
     remaining |-> <<>>]

InitWith(locales) ==
    /\ \E locale \in locales : cat = Catalog(locale, "created")
    /\ tmpl = Catalog(None, "extracted")
    /\ pc = "build"
    /\ hist = NoUpdate
    /\ other = <<>>
    /\ log = <<>>
    /\ fs = {}
    /\ shared = {}

Init == InitWith({"de"})

\* catalog.add(...) on the translated catalog; a call whose assertion fails
\* leaves the catalog as it was
CatalogAdd(a) ==
    /\ pc = "build"
    /\ Len(cat.messages) < MaxCat
    /\ ~add(cat, a).raised
    /\ cat' = add(cat, a).c
    /\ UNCHANGED <<tmpl, pc, hist, other, log, fs, shared>>

\* template.add(...) on the template
TemplateAdd(a) ==
    /\ pc = "build"
    /\ Len(tmpl.messages) < MaxTmpl
    /\ ~add(tmpl, a).raised
    /\ tmpl' = add(tmpl, a).c
    /\ UNCHANGED <<cat, pc, hist, other, log, fs, shared>>

\* the keys under which a pass stored the template's own message: a message
\* that nothing matched is assigned as it is, not as a clone
SharedBy(trace) ==
    {<<"tmpl", trace[i].key>> : i \in {j \in DOMAIN trace : trace[j].path = "new" /\ ~trace[j].raised}}

\* the state after a pass that ended in st
Updated(st, no_fuzzy_matching, update_header_comment, keep_user_comments) ==
    /\ cat' = st.c
    /\ shared' = SharedBy(st.trace)
    /\ pc' = IF st.raised THEN "raised" ELSE "updated"
    /\ hist' = [pre |-> cat.messages,
                no_fuzzy_matching |-> no_fuzzy_matching,
                update_header_comment |-> update_header_comment,
                keep_user_comments |-> keep_user_comments,
                trace |-> st.trace,
                fuzzy_matches |-> st.fuzzy_matches,
                remaining |-> st.remaining]

\* catalog.update(template, ...): the whole call, to its return or to the
\* exception that ends it; iterating the template reads its Plural-Forms
\* header, and so its num_plurals, when it has a locale
Update(no_fuzzy_matching, update_header_comment, keep_user_comments) ==
    /\ pc = "build"
    /\ Updated(update(cat, tmpl, no_fuzzy_matching, update_header_comment,
                      keep_user_comments),
               no_fuzzy_matching, update_header_comment, keep_user_comments)
    /\ tmpl' = AfterMimeHeaders(tmpl)
    /\ UNCHANGED <<other, log, fs>>

Next ==
    \/ \E a \in CatalogArgs : CatalogAdd(a)
    \/ \E a \in TemplateArgs : TemplateAdd(a)
    \/ \E nf, uhc, kuc \in BOOLEAN : Update(nf, uhc, kuc)

Spec == Init /\ [][Next]_vars

\* the same machine over messages whose strings do not fit their ids
ShapeInit == InitWith(Locales)

ShapeNext ==
    \/ \E a \in ShapeCatalogArgs : CatalogAdd(a)
    \/ \E a \in ShapeTemplateArgs : TemplateAdd(a)
    \/ \E nf, uhc, kuc \in BOOLEAN : Update(nf, uhc, kuc)

ShapeSpec == ShapeInit /\ [][ShapeNext]_vars

\* the same machine over msgids that resemble each other
NameNext ==
    \/ \E a \in NameCatalogArgs : CatalogAdd(a)
    \/ \E a \in NameTemplateArgs : TemplateAdd(a)
    \/ \E nf, uhc, kuc \in BOOLEAN : Update(nf, uhc, kuc)

NameSpec == Init /\ [][NameNext]_vars

\* ------------------------------------------------------------------------
\* Properties of update()
\* ------------------------------------------------------------------------
\* the keys of the main mapping before the pass, and the derived keys of the
\* template's messages in its iteration order
PreKeys == Keys(hist.pre)
DerivedKeys(c) ==
    [i \in DOMAIN c.messages |->
        KeyFor(c.messages[i].msg.id, c.messages[i].msg.context)]
TemplateKeys == {DerivedKeys(tmpl)[i] : i \in DOMAIN tmpl.messages}
Steps == {hist.trace[i] : i \in DOMAIN hist.trace}
\* the old keys an exact merge consumed, and those a fuzzy merge claimed
Consumed == {t.oldkey : t \in {u \in Steps : u.path = "exact"}}
Claimed == {t.oldkey : t \in {u \in Steps : u.path = "fuzzy"}}

\* every key of the template was in the catalog with a non-empty string
AllTranslated ==
    \A k \in TemplateKeys : Has(hist.pre, k) /\ StrTruthy(Get(hist.pre, k).string)

\* the string has the shape the id asks for: a scalar for a singular id, a
\* tuple of num_plurals forms for a pluralizable id
Fits(id, string) ==
    IF id.tup THEN string.tup /\ Len(string.forms) = num_plurals(cat)
    ELSE ~string.tup

\* the entry of key k kept the string it had and was not made fuzzy
Preserved(k) ==
    /\ Has(cat.messages, k)
    /\ Get(cat.messages, k).string = Get(hist.pre, k).string
    /\ fuzzy(Get(cat.messages, k)) =>
          fuzzy(Get(hist.pre, k)) \/ fuzzy(Get(tmpl.messages, k))

\* C1 as stated: when every key of the template was in the catalog with a
\* non-empty string, each of them has the same string after the update and
\* is fuzzy only if the old or the template message was.
C1_AsStated ==
    (pc # "build" /\ AllTranslated) =>
        (pc = "updated" /\ \A k \in TemplateKeys : Preserved(k))

\* C1 (amended): when every key of the template was in the catalog with a
\* non-empty string of the shape the template id asks for, the update
\* returns and each of them has the same string as before and is fuzzy only
\* if the old or the template message was.
C1_PreservesFittingTranslations ==
    (/\ pc # "build"
     /\ AllTranslated
     /\ \A k \in TemplateKeys :
           Fits(Get(tmpl.messages, k).id, Get(hist.pre, k).string)) =>
        (pc = "updated" /\ \A k \in TemplateKeys : Preserved(k))

C1_Witness ==
    /\ pc = "updated"
    /\ AllTranslated
    /\ Len(tmpl.messages) = 2
    /\ \A k \in TemplateKeys :
          Fits(Get(tmpl.messages, k).id, Get(hist.pre, k).string)
    /\ \E k \in TemplateKeys :
          /\ Get(tmpl.messages, k).id.tup
          /\ Get(cat.messages, k).string = Tuple(<<"couleur", "couleurs">>)
          /\ ~fuzzy(Get(cat.messages, k))

C3_TemplateIsAuthoritative ==
    pc = "updated" =>
        [i \in DOMAIN cat.messages |-> cat.messages[i].key] = DerivedKeys(tmpl)

C3_Witness ==
    /\ pc = "updated"
    /\ Len(tmpl.messages) = 2
    /\ Len(hist.pre) = 2
    /\ PreKeys = TemplateKeys
    /\ hist.pre[1].key = cat.messages[2].key

\* C4: after an update that returned, every old key that no exact merge
\* consumed and no fuzzy merge claimed is in obsolete with its old message,
\* marked modified, and is not in the main mapping; no key an exact merge
\* consumed is in obsolete.
C4_ObsoleteClassification ==
    pc = "updated" =>
        \A k \in PreKeys :
            /\ (k \notin Consumed /\ k \notin Claimed) =>
                  /\ Has(cat.obsolete, k)
                  /\ Get(cat.obsolete, k)
                        = [Get(hist.pre, k) EXCEPT !.modified = TRUE]
                  /\ ~Has(cat.messages, k)
            /\ k \in Consumed => ~Has(cat.obsolete, k)

C4_Witness ==
    /\ pc = "updated"
    /\ \E k \in PreKeys \ (Consumed \cup Claimed) :
          ~Get(hist.pre, k).modified /\ Get(cat.obsolete, k).modified
    /\ Consumed # {}

\* the entry the pass stored for the template message of step t
EntryOf(t) == Get(cat.messages, t.key)
\* the steps that merged an old message and stored the result
Merges == {t \in Steps : t.path \in {"exact", "fuzzy"} /\ ~t.raised}

\* C5: with fuzzy matching enabled, a catalog holding "Color" -> "Couleur"
\* updated against a template holding only "Colour" stores "Colour" with the
\* string "Couleur", fuzzy, previous_id ["Color"], and obsolete stays empty.
C5_ColorColour ==
    (/\ pc = "updated"
     /\ ~hist.no_fuzzy_matching
     /\ Len(hist.pre) = 1
     /\ hist.pre[1].key = PlainKey(Color)
     /\ hist.pre[1].msg.string = Scalar("Couleur")
     /\ Len(tmpl.messages) = 1
     /\ tmpl.messages[1].key = PlainKey(Colour)) =>
        /\ Get(cat.messages, PlainKey(Colour)).string = Scalar("Couleur")
        /\ fuzzy(Get(cat.messages, PlainKey(Colour)))
        /\ Get(cat.messages, PlainKey(Colour)).previous_id = <<Color>>
        /\ cat.obsolete = <<>>

\* the texts of the candidate pool of the pass, in pool order: the msgids of
\* the old messages that had a translation
RECURSIVE PoolOf(_)
PoolOf(entries) ==
    IF entries = <<>> THEN <<>>
    ELSE IF StrTruthy(entries[1].msg.string)
    THEN distinct(<<entries[1].key.id>> \o PoolOf(Tail(entries)))
    ELSE PoolOf(Tail(entries))

Pool == PoolOf(hist.pre)
PoolSet == {Pool[i] : i \in DOMAIN Pool}
PoolIndex(x) == CHOOSE i \in DOMAIN Pool : Pool[i] = x
\* the text the search is made with for the template key of step t
Word(t) == Strip(Lower(t.key.id))
\* the ratios r and s are equal
SameRatio(r, s) == ~FracLess(r, s) /\ ~FracLess(s, r)

\* the old key x, of ratio r to the word w, reaches the cutoff and no
\* candidate has a higher ratio
Best(x, r, w) ==
    /\ x \in PoolSet
    /\ FracGeq(r, Cutoff)
    /\ \A y \in PoolSet : ~FracLess(r, Ratio(y, w))

\* among the candidates of ratio r to w, x is the first of the pool
FirstOfEquals(x, r, w) ==
    \A y \in PoolSet : SameRatio(r, Ratio(y, w)) => PoolIndex(x) <= PoolIndex(y)

\* among the candidates of ratio r to w, x is the text that compares greatest
GreatestOfEquals(x, r, w) ==
    \A y \in PoolSet : SameRatio(r, Ratio(y, w)) => ~StrLess(x, y)

FuzzySteps == {t \in Steps : t.path = "fuzzy"}

\* C6 as stated: a fuzzy merge takes an old key whose ratio reaches 0.85,
\* the one of highest ratio, and among equal ratios the first of the pool.
C6_AsStated ==
    pc = "updated" =>
        \A t \in FuzzySteps :
            /\ Best(t.oldkey.id, Ratio(t.oldkey.id, Word(t)), Word(t))
            /\ FirstOfEquals(t.oldkey.id, Ratio(t.oldkey.id, Word(t)), Word(t))

\* C6 (amended): a fuzzy merge takes an old key whose ratio to the
\* normalized template key reaches 0.85, the one of highest ratio, and among
\* equal ratios the one whose text compares greatest, whatever the order of
\* the pool.
C6_BestCandidate ==
    pc = "updated" =>
        \A t \in FuzzySteps :
            /\ Best(t.oldkey.id, Ratio(t.oldkey.id, Word(t)), Word(t))
            /\ GreatestOfEquals(t.oldkey.id, Ratio(t.oldkey.id, Word(t)), Word(t))

\* two candidates of equal ratio, the first of the pool not being taken
C6_Witness ==
    /\ pc = "updated"
    /\ \E t \in FuzzySteps :
          \E x \in PoolSet :
             /\ x # t.oldkey.id
             /\ SameRatio(Ratio(t.oldkey.id, Word(t)), Ratio(x, Word(t)))
             /\ PoolIndex(x) < PoolIndex(t.oldkey.id)

\* C7: an update never raises, whatever the shapes of the ids and strings,
\* and every entry whose string was coerced is fuzzy.
C7_NeverRaises ==
    /\ pc # "raised"
    /\ pc = "updated" =>
          \A t \in Merges :
              EntryOf(t).string # t.old[1].string => fuzzy(EntryOf(t))

\* the steps that merged an old message, to their end or to an exception
MergeSteps == {t \in Steps : t.path \in {"exact", "fuzzy"}}

C9_PluralArity ==
    pc = "updated" =>
        \A t \in Merges :
            (t.tmsg.id.tup /\ t.old[1].string.tup) =>
                /\ Len(EntryOf(t).string.forms) = num_plurals(cat)
                /\ Len(t.old[1].string.forms) # num_plurals(cat) =>
                      fuzzy(EntryOf(t))

\* the entries of both catalogs
Entries ==
    {cat.messages[i] : i \in DOMAIN cat.messages}
    \cup {tmpl.messages[i] : i \in DOMAIN tmpl.messages}
Singular(id) == id.forms[1]

\* C10 as stated: the key is the singular id, paired with the context only
\* when the context is not empty, so that an empty context and no context
\* give one key; the plural form takes no part; different non-empty contexts
\* give different keys.
C10_AsStated ==
    /\ \A e \in Entries :
          /\ e.key.id = Singular(e.msg.id)
          /\ e.key.pair <=> e.msg.context \notin {None, ""}
    /\ \A e1, e2 \in Entries :
          /\ (/\ Singular(e1.msg.id) = Singular(e2.msg.id)
              /\ e1.msg.context \in {None, ""}
              /\ e2.msg.context \in {None, ""}) => e1.key = e2.key

\* C10 (amended): the key is the singular id, paired with the context
\* whenever the context is not None, so that an empty context and no context
\* give different keys; messages of one singular id and one context have one
\* key whatever their plural forms; messages of one id and different
\* contexts have different keys.
C10_KeyDerivation ==
    /\ \A e \in Entries :
          /\ e.key.id = Singular(e.msg.id)
          /\ e.key.pair <=> e.msg.context # None
          /\ e.key.pair => e.key.ctx = e.msg.context
    /\ \A e1, e2 \in Entries :
          Singular(e1.msg.id) = Singular(e2.msg.id) =>
              (e1.key = e2.key <=> e1.msg.context = e2.msg.context)

\* a scalar and two pluralizable ids of one singular under one key, and the
\* same id under no context, an empty one and a non-empty one
C10_Witness ==
    /\ \E e1, e2 \in Entries :
          /\ e1.msg.id = Tuple(<<color, colors>>)
          /\ e2.msg.id = Tuple(<<color, colours>>)
          /\ e1.key = e2.key
    /\ \E e1, e2 \in Entries :
          /\ e1.msg.id = Scalar(color) /\ e1.msg.context = ""
          /\ e2.msg.id = Scalar(color) /\ e2.msg.context = "menu"
          /\ e1.key # e2.key

\* ------------------------------------------------------------------------
\* Repeated additions under one key
\* ------------------------------------------------------------------------
\* most calls of add in a row
MaxLog == 3

ncolors == <<"%", "d", " ">> \o colors

\* additions that meet under the key "color": other strings, locations,
\* comments and flags, singular and pluralizable ids; and additions under
\* other keys
UnionArgs ==
    {Args(Scalar(color), Scalar("couleur"), {}, None, "a.py"),
     [Args(Scalar(color), Scalar("Farbe"), {"fuzzy"}, None, "b.py")
         EXCEPT !.auto_comments = <<"note">>],
     [Args(Tuple(<<color, ncolors>>), Tuple(<<"couleur", "couleurs">>), {}, None,
           "c.py")
         EXCEPT !.locations = <<"c.py", "a.py">>, !.user_comments = <<"plural">>],
     Args(Tuple(<<color, colours>>), Scalar("draft"), {}, None, "b.py"),
     Args(Tuple(<<color, colors>>), Scalar(None), {}, None, "a.py"),
     Args(Scalar(color), Scalar("en couleur"), {}, "menu", "a.py"),
     Args(Scalar(Colour), Scalar("Couleur"), {}, None, "a.py")}

\* catalog.add(...) once more, whatever the catalog holds; a call whose
\* assertion fails leaves the catalog as it was
AddAgain(a) ==
    /\ pc = "build"
    /\ Len(log) < MaxLog
    /\ ~add(cat, a).raised
    /\ cat' = add(cat, a).c
    /\ log' = Append(log, a)
    /\ UNCHANGED <<tmpl, pc, hist, other, fs, shared>>

AddNext == \E a \in UnionArgs : AddAgain(a)

AddSpec == Init /\ [][AddNext]_vars

\* the message an addition builds
Built(a) ==
    Message(a.id, a.string, a.locations, a.flags, a.auto_comments,
            a.user_comments, a.previous_id, a.context, FALSE)

\* the messages of the additions made under key k, in order
RECURSIVE AdditionsOf(_, _)
AdditionsOf(l, k) ==
    IF l = <<>> THEN <<>>
    ELSE (IF KeyFor(l[1].id, l[1].context) = k THEN <<Built(l[1])>> ELSE <<>>)
         \o AdditionsOf(Tail(l), k)

RECURSIVE Flat(_)
Flat(parts) == IF parts = <<>> THEN <<>> ELSE parts[1] \o Flat(Tail(parts))

FirstAt(all, x) == CHOOSE i \in DOMAIN all : all[i] = x /\ \A j \in 1..(i - 1) : all[j] # x

\* stored holds every item of all exactly once, in the order of their first
\* occurrences in all
OnceInOrder(stored, all) ==
    /\ \A i \in DOMAIN all : \E j \in DOMAIN stored : stored[j] = all[i]
    /\ \A i, j \in DOMAIN stored :
          i < j => /\ stored[i] # stored[j]
                   /\ \E p \in DOMAIN all : all[p] = stored[i]
                   /\ \E p \in DOMAIN all : all[p] = stored[j]
                   /\ FirstAt(all, stored[i]) < FirstAt(all, stored[j])

\* the addition whose id and string the entry has: the first pluralizable
\* one, or the first one when none is pluralizable
Owner(ms) ==
    IF \E j \in DOMAIN ms : pluralizable(ms[j])
    THEN ms[CHOOSE j \in DOMAIN ms :
                pluralizable(ms[j]) /\ \A i \in 1..(j - 1) : ~pluralizable(ms[i])]
    ELSE ms[1]

UnionOf(m, ms) ==
    /\ ms # <<>>
    /\ OnceInOrder(m.locations, Flat([j \in DOMAIN ms |-> ms[j].locations]))
    /\ OnceInOrder(m.auto_comments, Flat([j \in DOMAIN ms |-> ms[j].auto_comments]))
    /\ OnceInOrder(m.user_comments, Flat([j \in DOMAIN ms |-> ms[j].user_comments]))
    /\ m.flags = UNION {ms[j].flags : j \in DOMAIN ms}
    /\ m.id = Owner(ms).id
    /\ m.string = Owner(ms).string

\* C11: after any sequence of additions, the entry of a key holds every
\* location, auto comment and user comment of every addition made under the
\* key exactly once, earlier items first, and the union of their flags; its
\* id and string are those of the first addition, or of the first
\* pluralizable addition when the first was singular.
C11_UnionNotOverwrite ==
    \A i \in DOMAIN cat.messages :
        UnionOf(cat.messages[i].msg, AdditionsOf(log, cat.messages[i].key))

\* a translated singular, then another translation, then a pluralizable id:
\* the second string was not adopted, the third was
C11_Witness ==
    /\ Len(log) = 3
    /\ log[1].string = Scalar("couleur")
    /\ log[2].string = Scalar("Farbe")
    /\ log[3].id = Tuple(<<color, ncolors>>)
    /\ Len(cat.messages) = 1
    /\ cat.messages[1].msg.locations = <<"a.py", "b.py", "c.py">>
    /\ cat.messages[1].msg.user_comments = <<"checked", "plural">>
    /\ cat.messages[1].msg.flags = {"fuzzy", "python-format"}
    /\ cat.messages[1].msg.string = Tuple(<<"couleur", "couleurs">>)


\* ------------------------------------------------------------------------
\* Reading and writing the header fields
\* ------------------------------------------------------------------------
\* catalogs of several metadata: a template, known and unknown locales given
\* as identifiers or as Locale objects, an identifier with a hyphen, a
\* version of two words, a language team of its own, a charset in capitals
HeaderCatalogs ==
    {Defaults,
     [Defaults EXCEPT !.locale = LocaleString(<<"d", "e">>)],
     [Defaults EXCEPT !.locale = LocaleObject("ja")],
     [Defaults EXCEPT !.locale = LocaleString(<<"x", "x">>)],
     [Defaults EXCEPT !.locale = LocaleString(<<"d", "e", "-", "D", "E">>),
                      !.language_team = 
    <<"d", "e", " ", "<", "d", "e", "@", "e", "x", "a", "m", "p", "l", "e",
      ".", "c", "o", "m", ">">>],
     [Defaults EXCEPT !.locale = LocaleString(<<"d", "e">>),
                      !.project = <<"M", "y", " ", "P", "r", "o", "j", "e", "c", "t">>, !.version = <<"1", ".", "0">>,
                      !.language_team = 
    <<"d", "e", " ", "<", "d", "e", "@", "e", "x", "a", "m", "p", "l", "e",
      ".", "c", "o", "m", ">">>,
                      !.msgid_bugs_address = 
    <<"b", "u", "g", "s", "@", "e", "x", "a", "m", "p", "l", "e", ".", "c",
      "o", "m">>,
                      !.last_translator = 
    <<"J", " ", "D", " ", "<", "j", "d", "@", "e", "x", "a", "m", "p", "l",
      "e", ".", "c", "o", "m", ">">>],
     [Defaults EXCEPT !.project = <<"p", "o", "b", "o", "y">>, !.version = <<"1", ".", "0", " ", "b", "e", "t", "a">>],
     [Defaults EXCEPT !.locale = LocaleString(<<"j", "a">>), !.charset = <<"U", "T", "F", "-", "8">>,
                      !.revision_date = [datetime |-> FALSE,
                                         text |-> <<"2", "0", "2", "1", "-", "0", "1", "-", "0", "1">>]]}

\* field lists a caller writes: names in several cases, a name that is not
\* a header of the catalog
HeaderLists ==
    {<<Header(<<"P", "l", "u", "r", "a", "l", "-", "F", "o", "r", "m", "s">>, 
    <<"n", "p", "l", "u", "r", "a", "l", "s", "=", "3", ";", " ", "p", "l",
      "u", "r", "a", "l", "=", "(", "n", "=", "=", "1", " ", "?", " ", "0",
      " ", ":", " ", "1", ")">>)>>,
     <<Header(<<"P", "L", "U", "R", "A", "L", "-", "F", "O", "R", "M", "S">>, 
    <<"n", "p", "l", "u", "r", "a", "l", "s", "=", "3", ";", " ", "p", "l",
      "u", "r", "a", "l", "=", "(", "n", "=", "=", "1", " ", "?", " ", "0",
      " ", ":", " ", "1", ")">>)>>,
     <<Header(<<"X", "-", "G", "e", "n", "e", "r", "a", "t", "o", "r">>, <<"p", "o", "b", "o", "y">>)>>,
     <<Header(<<"L", "A", "N", "G", "U", "A", "G", "E">>, <<"j", "a">>), Header(<<"c", "o", "n", "t", "e", "n", "t", "-", "t", "y", "p", "e">>, <<"t", "e", "x", "t", "/", "p", "l", "a", "i", "n">>)>>}

HeaderInit ==
    /\ \E a \in HeaderCatalogs : cat = CatalogWith(a)
    /\ tmpl = Catalog(None, "extracted")
    /\ pc = "build"
    /\ hist = NoUpdate
    /\ other = <<>>
    /\ log = <<>>
    /\ fs = {}
    /\ shared = {}

\* catalog.plural_forms is read
ReadPluralForms ==
    /\ Len(log) < MaxLog
    /\ cat' = CachePluralForms(cat)
    /\ log' = Append(log, [op |-> "plural_forms", headers |-> <<>>])
    /\ UNCHANGED <<tmpl, pc, hist, other, fs, shared>>

\* catalog.mime_headers = headers
WriteHeaders(headers) ==
    /\ Len(log) < MaxLog
    /\ cat' = SetMimeHeaders(cat, headers)
    /\ log' = Append(log, [op |-> "write", headers |-> headers])
    /\ UNCHANGED <<tmpl, pc, hist, other, fs, shared>>

\* catalog.mime_headers = catalog.mime_headers
RoundTrip ==
    /\ Len(log) < MaxLog
    /\ cat' = SetMimeHeaders(AfterMimeHeaders(cat), GetMimeHeaders(cat))
    /\ log' = Append(log, [op |-> "round_trip", headers |-> GetMimeHeaders(cat)])
    /\ UNCHANGED <<tmpl, pc, hist, other, fs, shared>>

HeaderNext ==
    \/ ReadPluralForms
    \/ \E headers \in HeaderLists : WriteHeaders(headers)
    \/ RoundTrip

HeaderSpec == HeaderInit /\ [][HeaderNext]_vars

\* the identifier of the catalog's locale as a text, "" when there is none
Identifier(c) == IF c.locale_identifier = <<>> THEN <<>> ELSE c.locale_identifier[1]

\* the headers with their names in small letters
LowerNames(headers) ==
    [i \in DOMAIN headers |-> Header(Lower(headers[i].name), headers[i].value)]

\* the names the setter knows
KnownNames ==
    {
    <<"p", "r", "o", "j", "e", "c", "t", "-", "i", "d", "-", "v", "e", "r",
      "s", "i", "o", "n">>, 
    <<"r", "e", "p", "o", "r", "t", "-", "m", "s", "g", "i", "d", "-", "b",
      "u", "g", "s", "-", "t", "o">>, 
    <<"l", "a", "s", "t", "-", "t", "r", "a", "n", "s", "l", "a", "t", "o",
      "r">>,
     <<"l", "a", "n", "g", "u", "a", "g", "e">>, <<"l", "a", "n", "g", "u", "a", "g", "e", "-", "t", "e", "a", "m">>, <<"c", "o", "n", "t", "e", "n", "t", "-", "t", "y", "p", "e">>, <<"p", "l", "u", "r", "a", "l", "-", "f", "o", "r", "m", "s">>}

\* C19 as stated: a round trip of the header fields leaves project, version,
\* msgid_bugs_address, last_translator, language_team, the locale
\* identifier, charset, num_plurals and plural_expr as they were.
C19_AsStated ==
    [][RoundTrip =>
          /\ cat'.project = cat.project
          /\ cat'.version = cat.version
          /\ cat'.msgid_bugs_address = cat.msgid_bugs_address
          /\ cat'.last_translator = cat.last_translator
          /\ cat'.language_team = cat.language_team
          /\ cat'.locale_identifier = cat.locale_identifier
          /\ cat'.charset = cat.charset
          /\ num_plurals(cat') = num_plurals(cat)
          /\ plural_expr(cat') = plural_expr(cat)]_vars

\* C19 (amended): a round trip of the header fields leaves
\* msgid_bugs_address and last_translator as they were; project and version
\* when the version holds no blank; language_team, but with LANGUAGE
\* replaced by the locale identifier when there is one; the locale
\* identifier with its hyphens replaced by underscores; charset in small
\* letters; num_plurals and plural_expr when the identifier holds no hyphen.
\* A field list has the effect of the same list with its names in small
\* letters, and none when it holds no name the setter knows.
C19_HeaderRoundTrip ==
    [][/\ RoundTrip =>
            /\ cat'.msgid_bugs_address = cat.msgid_bugs_address
            /\ cat'.last_translator = cat.last_translator
            /\ ~Contains(cat.version, <<" ">>) =>
                  cat'.project = cat.project /\ cat'.version = cat.version
            /\ cat'.language_team =
                  IF Identifier(cat) # <<>>
                  THEN Replace(cat.language_team, LANGUAGE, Identifier(cat))
                  ELSE cat.language_team
            /\ Identifier(cat') = Replace(Identifier(cat), <<"-">>, <<"_">>)
            /\ cat'.charset = Lower(cat.charset)
            /\ ~Contains(Identifier(cat), <<"-">>) =>
                  /\ num_plurals(cat') = num_plurals(cat)
                  /\ plural_expr(cat') = plural_expr(cat)
       /\ \A headers \in HeaderLists :
            WriteHeaders(headers) =>
                /\ cat' = SetMimeHeaders(cat, LowerNames(headers))
                /\ (\A i \in DOMAIN headers :
                        Lower(headers[i].name) \notin KnownNames) => cat' = cat]_vars

\* a round trip that gave the language team the locale identifier, after
\* three plural forms were written under a name in capitals
C19_Witness ==
    /\ Len(log) = 2
    /\ log[1].op = "write"
    /\ log[1].headers[1].name = <<"P", "L", "U", "R", "A", "L", "-", "F", "O", "R", "M", "S">>
    /\ log[2].op = "round_trip"
    /\ cat.language_team = <<"d", "e", " ", "<", "L", "L", "@", "l", "i", ".", "o", "r", "g", ">">>
    /\ cat.num_plurals = <<3>>
    /\ cat.plural_expr = <<<<"(", "n", "=", "=", "1", " ", "?", " ", "0", " ", ":", " ", "1", ")">>>>

\* ------------------------------------------------------------------------
\* Catalog.delete, Catalog.difference and Catalog.clone
\* ------------------------------------------------------------------------
\* catalog.delete(id, context)
delete(c, id, context) == [c EXCEPT !.messages = Without(@, KeyFor(id, context))]

\* the dict key that a message's id makes when the id is used as it is: the
\* text of a scalar id, the tuple of the forms of a pluralizable one. A tuple
\* of two texts equals the (msgid, msgctxt) pair of the same two texts
RawKey(id) ==
    IF ~id.tup THEN PlainKey(id.forms[1])
    ELSE IF Len(id.forms) = 2 THEN PairKey(id.forms[1], Str(id.forms[2]))
    ELSE PairKey(id.forms[1], Str(Join(Tail(id.forms), <<",">>)) \o ",)")

\* the body of the loop of difference() over the template, for one message:
\* remaining.pop(message.id) raises KeyError when the id is no key
DifferenceStep(st, messages, message) ==
    IF ~IdTruthy(message.id) THEN st
    ELSE IF Has(messages, KeyFor(message.id, message.context))
    THEN IF Has(st.remaining, RawKey(message.id))
         THEN [st EXCEPT !.remaining = Without(@, RawKey(message.id))]
         ELSE [st EXCEPT !.raised = TRUE]
    ELSE [st EXCEPT !.c.new = Put(@, RawKey(message.id), clone(message))]

RECURSIVE DifferenceLoop(_, _, _)
DifferenceLoop(st, messages, todo) ==
    IF todo = <<>> \/ st.raised THEN st
    ELSE DifferenceLoop(DifferenceStep(st, messages, todo[1]), messages, Tail(todo))

\* the last loop of difference(): what remains becomes an orphan
RECURSIVE Orphaned(_, _)
Orphaned(orphans, remaining) ==
    IF remaining = <<>> THEN orphans
    ELSE Orphaned(Put(orphans, remaining[1].key, remaining[1].msg), Tail(remaining))

\* catalog.difference(template), to its return or to the exception that ends
\* it: [c |-> the catalog afterwards, remaining |-> the working copy,
\* raised |-> whether KeyError was raised]
difference(c, template) ==
    LET st == DifferenceLoop([c |-> c, remaining |-> c.messages, raised |-> FALSE],
                             c.messages, Iterate(template))
    IN  IF st.raised THEN st ELSE [st EXCEPT !.c.orphans = Orphaned(@, st.remaining)]

\* the arguments clone() gives Catalog(): the Locale object (not the
\* identifier) and copies of the other attributes
CloneArgs(c) ==
    [locale |-> IF c.locale = None THEN NoLocale ELSE LocaleObject(c.locale),
     domain |-> c.domain, header_comment |-> c.header_comment.text,
     project |-> c.project, version |-> c.version,
     copyright_holder |-> c.copyright_holder,
     msgid_bugs_address |-> c.msgid_bugs_address,
     creation_date |-> c.creation_date, revision_date |-> c.revision_date,
     last_translator |-> c.last_translator, language_team |-> c.language_team,
     charset |-> c.charset, fuzzy |-> c.fuzzy, filename |-> c.filename]

\* the loop of clone(): c[message.id] = message.clone() for each stored
\* message, until an assignment raises
RECURSIVE CopyMessages(_, _)
CopyMessages(st, todo) ==
    IF todo = <<>> \/ st.raised THEN st
    ELSE CopyMessages(SetItem(st.c, todo[1].id, clone(todo[1])), Tail(todo))

\* catalog.clone(): [c |-> the new catalog, raised |-> whether an assertion
\* failed on the way]
CatalogClone(c) ==
    CopyMessages([c |-> [CatalogWith(CloneArgs(c)) EXCEPT
                            !.header_comment = c.header_comment],
                  raised |-> FALSE],
                 Stored(c))

\* ------------------------------------------------------------------------
\* A catalog at work: add, delete, update, difference, clone and edits of
\* its messages, in any order, against a template that stays as extracted
\* ------------------------------------------------------------------------
MaxOps == 4

pages == <<"p", "a", "g", "e", "s">>

\* what the catalog is given while it is worked on: a message translated
\* twice, one with a context, a pluralizable one, a pluralizable one whose
\* singular is empty, and a header block
WorkArgs ==
    {Args(Scalar(color), Scalar(string), {}, None, "a.py") : string \in {"couleur", "Farbe"}}
    \cup {Args(Scalar(color), Scalar("en couleur"), {}, "menu", "a.py"),
          Args(Tuple(<<color, colors>>), Tuple(<<"couleur", "couleurs">>), {}, None, "a.py"),
          Args(Tuple(<<<<>>, pages>>), Tuple(<<"page", "pages">>), {}, None, "a.py")}
    \cup {Args(Scalar(<<>>), Scalar(Str(CHOOSE text \in HeaderTexts : Contains(text, LANGUAGE_TEAM) \/ Contains(text, <<"L", "a", "n", "g", "u", "a", "g", "e">>))), {"fuzzy"}, None, "a.py")}

\* the template that a list of calls of add builds
RECURSIVE TemplateOf(_)
TemplateOf(args) ==
    IF args = <<>> THEN Catalog(None, "extracted")
    ELSE add(TemplateOf(SubSeq(args, 1, Len(args) - 1)), args[Len(args)]).c

WorkTemplates ==
    {TemplateOf(args) : args \in
        {<<>>,
         <<Args(Scalar(color), Scalar(None), {}, "menu", "b.py"),
           Args(Scalar(color), Scalar(None), {}, None, "b.py")>>,
         <<Args(Tuple(<<color, colours>>), Scalar(None), {}, None, "b.py")>>,
         <<Args(Scalar(Colour), Scalar(None), {}, None, "b.py")>>}}

WorkInit ==
    /\ cat \in {Catalog("de", "created"),
                CatalogWith([Defaults EXCEPT !.locale = LocaleString(<<"x", "x">>),
                                             !.creation_date = "created"])}
    /\ tmpl \in WorkTemplates
    /\ pc = "build"
    /\ hist = NoUpdate
    /\ other = <<>>
    /\ log = <<>>
    /\ fs = {}
    /\ shared = {}

\* the mapping d after the message of c under key was changed in place, when
\* d holds that same object under the same key
Also(d, tag, c, key) ==
    IF <<tag, key>> \in shared /\ Has(c.messages, key)
    THEN Put(d, key, Get(c.messages, key)) ELSE d

\* the catalogs after the entry key of c was changed in place
Mutated(c, key) ==
    /\ cat' = [c EXCEPT !.orphans = Also(@, "orphans", c, key)]
    /\ tmpl' = [tmpl EXCEPT !.messages = Also(@, "tmpl", c, key)]

\* catalog.add(...): a call whose assertion fails leaves the catalog as it
\* was; a call that meets its key changes the stored message in place
WorkAdd(a) ==
    /\ Len(log) < MaxOps
    /\ IF add(cat, a).raised \/ ~Has(cat.messages, KeyFor(a.id, a.context))
       THEN cat' = add(cat, a).c /\ tmpl' = tmpl
       ELSE Mutated(add(cat, a).c, KeyFor(a.id, a.context))
    /\ log' = Append(log, [op |-> "add", raised |-> add(cat, a).raised])
    /\ UNCHANGED <<pc, hist, other, fs, shared>>

\* catalog.delete(id, context)
WorkDelete(id, context) ==
    /\ Len(log) < MaxOps
    /\ cat' = delete(cat, id, context)
    /\ shared' = shared \ {<<tag, KeyFor(id, context)>> : tag \in {"tmpl", "orphans"}}
    /\ log' = Append(log, [op |-> "delete", raised |-> FALSE])
    /\ UNCHANGED <<tmpl, pc, hist, other, fs>>

\* catalog.update(template, no_fuzzy_matching=...), the other arguments at
\* their defaults
WorkUpdate(no_fuzzy_matching) ==
    /\ Len(log) < MaxOps
    /\ Updated(update(cat, tmpl, no_fuzzy_matching, FALSE, TRUE),
               no_fuzzy_matching, FALSE, TRUE)
    /\ tmpl' = AfterMimeHeaders(tmpl)
    /\ log' = Append(log, [op |-> "update", raised |-> pc' = "raised"])
    /\ UNCHANGED <<other, fs>>

\* catalog.difference(template): an orphan is the stored message itself
WorkDifference ==
    /\ Len(log) < MaxOps
    /\ cat' = difference(cat, tmpl).c
    /\ tmpl' = AfterMimeHeaders(tmpl)
    /\ shared' = IF difference(cat, tmpl).raised THEN shared
                 ELSE shared \cup {<<"orphans", k>> : k \in Keys(difference(cat, tmpl).remaining)}
    /\ log' = Append(log, [op |-> "difference", raised |-> difference(cat, tmpl).raised])
    /\ UNCHANGED <<pc, hist, other, fs>>

\* other = catalog.clone()
WorkClone ==
    /\ Len(log) < MaxOps
    /\ other' = IF CatalogClone(cat).raised THEN other ELSE <<CatalogClone(cat).c>>
    /\ log' = Append(log, [op |-> "clone", raised |-> CatalogClone(cat).raised])
    /\ UNCHANGED <<cat, tmpl, pc, hist, fs, shared>>

\* catalog[key].string = value, on a stored message
WorkEdit(key, value) ==
    /\ Len(log) < MaxOps
    /\ Has(cat.messages, key)
    /\ Mutated([cat EXCEPT !.messages =
                    Put(@, key, [Get(@, key) EXCEPT !.string = value, !.modified = TRUE])],
               key)
    /\ log' = Append(log, [op |-> "edit", raised |-> FALSE])
    /\ UNCHANGED <<pc, hist, other, fs, shared>>

WorkNext ==
    \/ \E a \in WorkArgs : WorkAdd(a)
    \/ \E context \in {None, "menu"} : WorkDelete(Scalar(color), context)
    \/ \E no_fuzzy_matching \in BOOLEAN : WorkUpdate(no_fuzzy_matching)
    \/ WorkDifference
    \/ WorkClone
    \/ \E context \in {None, "menu"} : WorkEdit(KeyFor(Scalar(color), context), Scalar("edited"))

WorkSpec == WorkInit /\ [][WorkNext]_vars

\* the same catalog when it is only given messages and compared with the
\* template
DiffNext ==
    \/ \E a \in {b \in WorkArgs : b.id.forms[1] = color /\ b.string.forms[1] # "Farbe"} : WorkAdd(a)
    \/ WorkDifference

DiffSpec == WorkInit /\ [][DiffNext]_vars

\* another template is extracted: a new catalog with messages of its own;
\* what the catalog took from the template before is no longer a message of
\* the template
WorkExtract ==
    /\ tmpl' \in WorkTemplates \ {tmpl}
    /\ shared' = {s \in shared : s[1] # "tmpl"}
    /\ UNCHANGED <<cat, pc, hist, other, log, fs>>

\* the same catalog when it is given translations and then updated from and
\* compared with one template after another
ObsoleteNext ==
    \/ \E a \in {b \in WorkArgs : b.id = Scalar(color) /\ b.context = None} : WorkAdd(a)
    \/ \E no_fuzzy_matching \in BOOLEAN : WorkUpdate(no_fuzzy_matching)
    \/ WorkDifference
    \/ WorkExtract

ObsoleteSpec == WorkInit /\ [][ObsoleteNext]_vars


\* ------------------------------------------------------------------------
\* Properties of a catalog at work
\* ------------------------------------------------------------------------
\* no stored message of c has the empty text as its id or as its singular
NoHeaderStored(c) == \A i \in DOMAIN c.messages : c.messages[i].msg.id.forms[1] # <<>>

\* C12: the header is never a stored entry: whatever calls were made, the
\* main mapping of the catalog, and of a clone taken of it, holds no message
\* whose (singular) id is the empty string, and iterating yields the
\* synthesized header of empty id first and the stored messages after it
C12_HeaderNeverStored ==
    /\ NoHeaderStored(cat)
    /\ \A i \in DOMAIN other : NoHeaderStored(other[i])
    /\ Iterate(cat)[1].id = Scalar(<<>>)
    /\ Len(Iterate(cat)) = Len(cat.messages) + 1

\* whether the step is a call of op
Called(op) == log' = Append(log, [op |-> op, raised |-> FALSE]) \/ log' = Append(log, [op |-> op, raised |-> TRUE])

\* the messages of a mapping, in its order
Values(d) == [i \in DOMAIN d |-> d[i].msg]

\* the non-header messages of the template whose derived key the main
\* mapping of c lacks, in the template's order
Absent(c, template) ==
    SelectSeq(Stored(template),
              LAMBDA m : IdTruthy(m.id) /\ ~Has(c.messages, KeyFor(m.id, m.context)))

\* the entries of the main mapping of c whose key is the derived key of no
\* message of the template
Unmatched(c, template) ==
    SelectSeq(c.messages,
              LAMBDA e : \A i \in DOMAIN template.messages :
                  e.key # KeyFor(template.messages[i].msg.id, template.messages[i].msg.context))

\* C13: difference classifies without mutating: a call of difference on a
\* catalog whose new and orphans are empty returns, leaves in new a clone of
\* exactly the template's non-header messages whose derived key is absent
\* from the main mapping and in orphans exactly the entries whose key is the
\* key of no template message, and leaves the main mapping as it was
C13_DifferenceClassifies ==
    [][(Called("difference") /\ cat.new = <<>> /\ cat.orphans = <<>>)
       => /\ ~log'[Len(log')].raised
          /\ Values(cat'.new) = [i \in DOMAIN Absent(cat, tmpl) |-> clone(Absent(cat, tmpl)[i])]
          /\ cat'.orphans = Unmatched(cat, tmpl)
          /\ cat'.messages = cat.messages]_vars

\* C14: difference is idempotent: a second call right after the first, on
\* the same template, leaves new and orphans, keys and contents, exactly as
\* the first call left them, and ends the way the first ended
C14_DifferenceIdempotent ==
    [][(Called("difference") /\ log # <<>> /\ log[Len(log)].op = "difference")
       => /\ cat'.new = cat.new
          /\ cat'.orphans = cat.orphans
          /\ log'[Len(log')].raised = log[Len(log)].raised]_vars

\* difference was called twice in a row and classified a new message and an
\* orphan
C14_Witness ==
    /\ \E i \in DOMAIN log : i > 1 /\ log[i].op = "difference" /\ log[i - 1].op = "difference" /\ i = Len(log)
    /\ cat.new # <<>>
    /\ cat.orphans # <<>>

\* C15: update never aliases messages between catalogs: no message stored
\* in the catalog is the same object as a message of the template, so that
\* setting the string of an entry of the catalog changes no message of the
\* template
C15_UpdateNeverAliases ==
    [][/\ \A s \in shared' : s[1] # "tmpl"
       /\ Called("edit") => tmpl'.messages = tmpl.messages]_vars

\* C16: obsolete entries are never deleted by the core: over any calls of
\* update and difference, with whatever template, an entry of obsolete is
\* still in obsolete after the call, with the same id and the same
\* translated string
C16_ObsoleteKept ==
    [][(Called("update") \/ Called("difference"))
       => \A i \in DOMAIN cat.obsolete :
             /\ Has(cat'.obsolete, cat.obsolete[i].key)
             /\ Get(cat'.obsolete, cat.obsolete[i].key).id = cat.obsolete[i].msg.id
             /\ Get(cat'.obsolete, cat.obsolete[i].key).string = cat.obsolete[i].msg.string]_vars

\* the keys of a mapping, in its order
KeyList(d) == [i \in DOMAIN d |-> d[i].key]

\* whether two messages are equal in id, string, flags, locations, comments
\* and context
SameMessage(m, n) ==
    /\ m.id = n.id /\ m.string = n.string /\ m.flags = n.flags
    /\ m.locations = n.locations /\ m.auto_comments = n.auto_comments
    /\ m.user_comments = n.user_comments /\ m.context = n.context

\* C17: Catalog.clone is a complete, independent copy: the call returns a
\* catalog with the locale and its identifier, the domain, project, version,
\* copyright holder, bugs address, dates, last translator, language team,
\* charset, fuzzy bit and filename of the original, with the same keys in
\* the same order, each with an equal message, and with empty new, orphans
\* and obsolete; the original is as it was
C17_CloneComplete ==
    [][Called("clone")
       => /\ ~log'[Len(log')].raised
          /\ other'[1].locale = cat.locale
          /\ other'[1].locale_identifier = cat.locale_identifier
          /\ \A f \in {"domain", "project", "version", "copyright_holder",
                       "msgid_bugs_address", "creation_date", "revision_date",
                       "last_translator", "language_team", "charset", "fuzzy",
                       "filename"} : other'[1][f] = cat[f]
          /\ KeyList(other'[1].messages) = KeyList(cat.messages)
          /\ \A i \in DOMAIN cat.messages :
                SameMessage(other'[1].messages[i].msg, cat.messages[i].msg)
          /\ other'[1].new = <<>> /\ other'[1].orphans = <<>> /\ other'[1].obsolete = <<>>
          /\ cat' = cat]_vars

\* ------------------------------------------------------------------------
\* Two catalogs of one project, updated from the same template
\* ------------------------------------------------------------------------
\* what the two catalogs are given, and what the template is given
SiblingArgs ==
    {a \in CatalogArgs : a.context = None /\ a.string.forms[1] # None}

SiblingTemplateArgs == {a \in TemplateArgs : a.context = None}

SiblingInit ==
    /\ cat = Catalog("de", "created")
    /\ other = <<Catalog("ja", "created")>>
    /\ tmpl = Catalog(None, "extracted")
    /\ pc = "build"
    /\ hist = NoUpdate
    /\ log = <<>>
    /\ fs = {}
    /\ shared = {}

\* sibling.add(...) on the second catalog
SiblingAdd(a) ==
    /\ pc = "build"
    /\ Len(other[1].messages) < MaxCat
    /\ ~add(other[1], a).raised
    /\ other' = <<add(other[1], a).c>>
    /\ UNCHANGED <<cat, tmpl, pc, hist, log, fs, shared>>

\* what the log keeps of a call of update: whose it was, and the catalogs
\* and the template as they were before it
Call(who, no_fuzzy_matching) ==
    [who |-> who, no_fuzzy_matching |-> no_fuzzy_matching,
     cat |-> cat, other |-> other[1], tmpl |-> tmpl]

\* catalog.update(template, no_fuzzy_matching=...), once
UpdateCatalog(no_fuzzy_matching) ==
    /\ \A i \in DOMAIN log : log[i].who # "cat"
    /\ Updated(update(cat, tmpl, no_fuzzy_matching, FALSE, TRUE),
               no_fuzzy_matching, FALSE, TRUE)
    /\ tmpl' = AfterMimeHeaders(tmpl)
    /\ log' = Append(log, Call("cat", no_fuzzy_matching))
    /\ UNCHANGED <<other, fs>>

\* sibling.update(template, no_fuzzy_matching=...), once
UpdateSibling(no_fuzzy_matching) ==
    /\ \A i \in DOMAIN log : log[i].who # "other"
    /\ other' = <<update(other[1], tmpl, no_fuzzy_matching, FALSE, TRUE).c>>
    /\ tmpl' = AfterMimeHeaders(tmpl)
    /\ pc' = IF pc = "build" THEN "sibling" ELSE pc
    /\ log' = Append(log, Call("other", no_fuzzy_matching))
    /\ UNCHANGED <<cat, hist, fs, shared>>

SiblingNext ==
    \/ \E a \in SiblingArgs : CatalogAdd(a)
    \/ \E a \in SiblingArgs : SiblingAdd(a)
    \/ \E a \in SiblingTemplateArgs : TemplateAdd(a)
    \/ \E no_fuzzy_matching \in BOOLEAN : UpdateCatalog(no_fuzzy_matching)
    \/ \E no_fuzzy_matching \in BOOLEAN : UpdateSibling(no_fuzzy_matching)

SiblingSpec == SiblingInit /\ [][SiblingNext]_vars

\* the call of update that was made on who
CallOn(who) == log[CHOOSE i \in DOMAIN log : log[i].who = who]

po == <<".", "p", "o">>
pot == <<".", "p", "o", "t">>
mo == <<".", "m", "o">>

\* the file names catalogs are given: a translation, a template, and a name
\* with neither ending
FileNames == {<<"d", "e">> \o po, <<"j", "a">> \o po, <<"m">> \o pot, <<"o", "u", "t">>}

\* a save that does nothing when there is no destination
save_Silent(catalog, filename, write_mo, files) == [files |-> files, error |-> ""]

\* save(catalog, filename, write_mo) when the files written so far are files:
\* [files |-> the files written afterwards, error |-> the exception raised,
\* "" when the call returns]. A filename is <<>> for None, <<name>> otherwise
save(catalog, filename, write_mo, files) ==
    LET name == IF filename = <<>> THEN catalog.filename ELSE filename
    IN  IF name = <<>> THEN [files |-> files, error |-> "FileNotFoundError"]
        ELSE IF EndsWith(name[1], pot) \/ ~write_mo
        THEN [files |-> files \cup {name[1]}, error |-> ""]
        ELSE [files |-> files \cup {name[1],
                                    (IF EndsWith(name[1], po)
                                     THEN SubSeq(name[1], 1, Len(name[1]) - 3)
                                     ELSE name[1]) \o mo},
              error |-> ""]

\* self.catalogs of the project: the template under TEMPLATE, then the
\* catalogs of the locales
Catalogs == <<[locale |-> "", catalog |-> tmpl], [locale |-> "de", catalog |-> cat]>> \o [i \in DOMAIN other |-> [locale |-> "ja", catalog |-> other[i]]]

\* the loop of save_all over the catalogs todo, until a save raises
RECURSIVE SaveLoop(_, _)
SaveLoop(st, todo) ==
    IF todo = <<>> \/ st.error # "" THEN st
    ELSE SaveLoop(save(todo[1].catalog, <<>>, TRUE, st.files), Tail(todo))

\* a project of a template and two catalogs, each with or without a file
\* name of its own
SaveInit ==
    /\ \E f \in {<<>>, <<<<"m">> \o pot>>} : tmpl = CatalogWith([Defaults EXCEPT !.filename = f])
    /\ \E f \in {<<>>, <<<<"d", "e">> \o po>>, <<<<"o", "u", "t">>>>} : cat = CatalogWith([Defaults EXCEPT !.locale = LocaleObject("de"), !.filename = f])
    /\ \E f \in {<<>>, <<<<"j", "a">> \o po>>} : other = <<CatalogWith([Defaults EXCEPT !.locale = LocaleObject("ja"), !.filename = f])>>
    /\ pc = "build"
    /\ hist = NoUpdate
    /\ log = <<>>
    /\ fs = {}
    /\ shared = {}

\* what a call did to the files, and the log of it
Saved(op, locale, filename, write_mo, st) ==
    /\ Len(log) < MaxLog
    /\ fs' = st.files
    /\ log' = Append(log, [op |-> op, locale |-> locale, filename |-> filename, write_mo |-> write_mo, error |-> st.error])
    /\ UNCHANGED <<cat, tmpl, pc, hist, other, shared>>

\* save(catalog, filename, write_mo) of utils.py, on the catalog
Save(filename, write_mo) == Saved("save", "de", filename, write_mo, save(cat, filename, write_mo, fs))

\* project.save(catalog)
ProjectSave == Saved("project.save", "de", <<>>, TRUE, save(cat, <<>>, TRUE, fs))

\* project.save_locale(locale): self.catalogs[locale] raises KeyError for a
\* locale the project has no catalog of
SaveLocale(locale) ==
    Saved("save_locale", locale, <<>>, TRUE,
          IF \E i \in DOMAIN Catalogs : Catalogs[i].locale = locale
          THEN save(Catalogs[CHOOSE i \in DOMAIN Catalogs : Catalogs[i].locale = locale].catalog, <<>>, TRUE, fs)
          ELSE [files |-> fs, error |-> "KeyError"])

\* project.save_all()
SaveAll == Saved("save_all", "", <<>>, TRUE, SaveLoop([files |-> fs, error |-> ""], Catalogs))

SaveNext ==
    \/ \E filename \in {<<>>} \cup {<<f>> : f \in FileNames \ {<<"j", "a">> \o po}}, write_mo \in BOOLEAN : Save(filename, write_mo)
    \/ ProjectSave
    \/ \E locale \in {"de", "ja", "fr"} : SaveLocale(locale)
    \/ SaveAll

SaveSpec == SaveInit /\ [][SaveNext]_vars

\* the files a save to name is to leave written: the text form, and the
\* binary form beside it unless the name is a template's or write_mo is off
Expected(name, write_mo) ==
    IF name = <<"m">> \o pot \/ ~write_mo THEN {name}
    ELSE {name, CASE name = <<"d", "e">> \o po -> <<"d", "e">> \o mo
                  [] name = <<"j", "a">> \o po -> <<"j", "a">> \o mo
                  [] OTHER -> name \o mo}

\* the catalogs of the project that have no file name
Homeless == {i \in DOMAIN Catalogs : Catalogs[i].catalog.filename = <<>>}

\* the catalog of the project that a call was about
Target(e) == Catalogs[CHOOSE i \in DOMAIN Catalogs : Catalogs[i].locale = e.locale].catalog

\* what a call of save on catalog c is to do: fail before any file is
\* written when there is no destination, write the expected files otherwise
SavedRight(e, c) ==
    IF e.filename = <<>> /\ c.filename = <<>>
    THEN e.error = "FileNotFoundError" /\ fs' = fs
    ELSE /\ e.error = ""
         /\ fs' = fs \cup Expected(IF e.filename = <<>> THEN c.filename[1] ELSE e.filename[1], e.write_mo)

\* C20: no-destination failure: a save with no filename argument of a
\* catalog whose filename is unset raises FileNotFoundError before any file
\* is written and leaves the catalog as it was; project.save, save_locale
\* and save_all raise it too instead of skipping the catalog; with a
\* filename the text form is written, and the binary form too unless the
\* name ends in .pot or write_mo is false
C20_NoDestination ==
    [][Len(log') = Len(log) + 1
       => LET e == log'[Len(log')]
          IN  /\ <<cat', tmpl', other'>> = <<cat, tmpl, other>>
              /\ e.op \in {"save", "project.save"} => SavedRight(e, cat)
              /\ (e.op = "save_locale" /\ e.locale # "fr") => SavedRight(e, Target(e))
              /\ e.op = "save_all"
                   => /\ Homeless # {} <=> e.error = "FileNotFoundError"
                      /\ Homeless = {}
                           => fs' = fs \cup UNION {Expected(Catalogs[i].catalog.filename[1], TRUE) : i \in DOMAIN Catalogs}]_vars

\* a save without a filename has just failed for the catalog that has none,
\* after an earlier call wrote a text form and a binary form
C20_Witness ==
    /\ Len(log) > 1
    /\ log[Len(log)].op = "save" /\ log[Len(log)].filename = <<>>
    /\ log[Len(log)].error = "FileNotFoundError"
    /\ cat.filename = <<>>
    /\ Cardinality(fs) >= 2

\* ------------------------------------------------------------------------
\* Further properties of update()
\* ------------------------------------------------------------------------
\* the positions in the trace of the steps that merged an old entry
MergedAt == {i \in DOMAIN hist.trace : hist.trace[i].path # "new"}

\* C21: in an update that returned, no old key is merged twice: a key that
\* an exact merge consumed or a fuzzy merge claimed is not the old key of a
\* later merge of the same pass, so one old entry's translation is carried
\* to at most one entry.
C21_ConsumedOnce ==
    pc = "updated" =>
        \A i, j \in MergedAt :
            hist.trace[i].oldkey = hist.trace[j].oldkey => i = j

\* templates whose messages already carry a string, a fuzzy flag or a
\* previous id
DraftTemplates ==
    {TemplateOf(args) : args \in
        {<<Args(Scalar(color), Scalar("draft"), {"fuzzy"}, None, "b.py")>>,
         <<[Args(Scalar(Colour), Scalar("draft"), {}, None, "b.py")
               EXCEPT !.previous_id = <<Color>>],
           Args(Scalar(pages), Scalar(None), {}, None, "b.py")>>,
         <<Args(Scalar(color), Scalar(None), {}, "menu", "b.py")>>}}

DraftInit ==
    /\ cat = Catalog("de", "created")
    /\ tmpl \in DraftTemplates
    /\ pc = "build"
    /\ hist = NoUpdate
    /\ other = <<>>
    /\ log = <<>>
    /\ fs = {}
    /\ shared = {}

\* a catalog given translations, compared with and updated from such a
\* template
DraftNext ==
    \/ \E a \in {b \in WorkArgs : b.id = Scalar(color) /\ b.string # Scalar("Farbe")} : WorkAdd(a)
    \/ \E no_fuzzy_matching \in BOOLEAN : WorkUpdate(no_fuzzy_matching)
    \/ WorkDifference

DraftSpec == DraftInit /\ [][DraftNext]_vars

\* the step is a call of update that returned
Returned == log' = Append(log, [op |-> "update", raised |-> FALSE])

\* the steps of the pass just made that found no match for their message
UnmatchedAt == {i \in DOMAIN hist'.trace : hist'.trace[i].path = "new"}

\* C22 as stated: after an update that returned, the entry stored for a
\* template message that nothing matched has an empty string, is not fuzzy
\* and has an empty previous_id, whatever the template message carries, and
\* new is empty.
C22_AsStated ==
    [][Returned =>
          /\ \A i \in UnmatchedAt :
                /\ ~StrTruthy(Get(cat'.messages, hist'.trace[i].key).string)
                /\ ~fuzzy(Get(cat'.messages, hist'.trace[i].key))
                /\ Get(cat'.messages, hist'.trace[i].key).previous_id = <<>>
          /\ cat'.new = <<>>]_vars

\* C22 (amended): after an update that returned, the entry stored for a
\* template message that nothing matched is the template message as it is,
\* with the string, the flags and the previous_id it carries, and new is
\* empty.
C22_UnmatchedStoredAsIs ==
    [][Returned =>
          /\ \A i \in UnmatchedAt :
                Get(cat'.messages, hist'.trace[i].key) = hist'.trace[i].tmsg
          /\ cat'.new = <<>>]_vars

C22_Witness ==
    /\ Len(log) > 1
    /\ log[Len(log) - 1] = [op |-> "difference", raised |-> FALSE]
    /\ log[Len(log)] = [op |-> "update", raised |-> FALSE]
    /\ cat.new = <<>>
    /\ \E i \in DOMAIN hist.trace :
          /\ hist.trace[i].path = "new"
          /\ hist.trace[i].tmsg.string = Scalar("draft")
          /\ hist.trace[i].tmsg.previous_id # <<>>
          /\ Get(cat.messages, hist.trace[i].key).string = Scalar("draft")

\* messages with comments and flags on both sides: old entries whose user
\* comments repeat, template messages with comments of their own
ProvenanceCatalogArgs ==
    {[Args(Scalar(color), string, {"no-wrap"}, None, "a.py")
         EXCEPT !.user_comments = <<"checked", "again", "checked">>] :
        string \in {Scalar("couleur"), Tuple(<<"couleur", "couleurs">>)}}
    \cup {Args(Tuple(<<Colour, Colours>>), Tuple(forms), {}, None, "a.py") :
        forms \in {<<"Couleur", "Couleurs">>, <<"Couleur">>}}

ProvenanceTemplateArgs ==
    {[Args(id, Scalar(None), {"c-format"}, None, "b.py")
         EXCEPT !.user_comments = <<"todo">>, !.auto_comments = <<"extracted">>] :
        id \in {Scalar(color), Scalar(colour), Tuple(<<color, colors>>)}}
    \cup {Args(Scalar(Colour), Scalar(None), {}, None, "b.py")}

ProvenanceNext ==
    \/ \E a \in ProvenanceCatalogArgs : CatalogAdd(a)
    \/ \E a \in ProvenanceTemplateArgs : TemplateAdd(a)
    \/ \E nf, uhc, kuc \in BOOLEAN : Update(nf, uhc, kuc)

ProvenanceSpec == ShapeInit /\ [][ProvenanceNext]_vars

\* r holds each item of s once, in the order of the first occurrences in s
Deduplicated(r, s) ==
    /\ {r[i] : i \in DOMAIN r} = {s[i] : i \in DOMAIN s}
    /\ \A i, j \in DOMAIN r : i < j =>
          /\ r[i] # r[j]
          /\ \E a \in DOMAIN s : s[a] = r[i] /\ \A b \in DOMAIN s : s[b] = r[j] => a < b

\* what the merged entry of step t takes from the template message and, for
\* the user comments, from the old entry
FromTemplate(t) ==
    /\ EntryOf(t).id = t.tmsg.id
    /\ EntryOf(t).context = t.tmsg.context
    /\ EntryOf(t).locations = t.tmsg.locations
    /\ EntryOf(t).auto_comments = t.tmsg.auto_comments
    /\ IF hist.keep_user_comments
       THEN Deduplicated(EntryOf(t).user_comments, t.old[1].user_comments)
       ELSE EntryOf(t).user_comments = t.tmsg.user_comments

\* C23 as stated: after an update that returned, an entry stored by an
\* exact or fuzzy merge has the id, context, locations and auto_comments of
\* the template message, the string of the old entry, the old entry's user
\* comments deduplicated (the template message's when keep_user_comments is
\* false), and as flags the union of both messages' flags.
C23_AsStated ==
    pc = "updated" =>
        \A t \in Merges :
            /\ FromTemplate(t)
            /\ EntryOf(t).string = t.old[1].string
            /\ EntryOf(t).flags = t.tmsg.flags \cup t.old[1].flags

\* the old string is of the kind the template id asks for: a tuple for a
\* pluralizable id, a scalar for a singular one
SameKind(id, string) == id.tup = string.tup

\* C23 (amended): as stated, except that an old string of the other kind is
\* adapted (a scalar becomes a tuple of the id's length padded with empty
\* forms, a tuple becomes its first form), and that the flags also hold
\* fuzzy when the merge is a fuzzy merge or the old string did not fit the
\* template id.
C23_Provenance ==
    pc = "updated" =>
        \A t \in Merges :
            /\ FromTemplate(t)
            /\ SameKind(t.tmsg.id, t.old[1].string) =>
                  EntryOf(t).string = t.old[1].string
            /\ (t.tmsg.id.tup /\ ~t.old[1].string.tup) =>
                  /\ EntryOf(t).string.tup
                  /\ Len(EntryOf(t).string.forms) = Len(t.tmsg.id.forms)
                  /\ EntryOf(t).string.forms[1] = t.old[1].string.forms[1]
                  /\ \A i \in 2..Len(t.tmsg.id.forms) : EntryOf(t).string.forms[i] = ""
            /\ (~t.tmsg.id.tup /\ t.old[1].string.tup) =>
                  EntryOf(t).string = Scalar(t.old[1].string.forms[1])
            /\ EntryOf(t).flags =
                  t.tmsg.flags \cup t.old[1].flags
                  \cup (IF t.path = "fuzzy" \/ ~Fits(t.tmsg.id, t.old[1].string)
                        THEN {"fuzzy"} ELSE {})

C23_Witness ==
    /\ pc = "updated"
    /\ hist.keep_user_comments
    /\ \E t \in Merges :
          /\ t.path = "exact"
          /\ t.tmsg.id.tup
          /\ ~t.old[1].string.tup
          /\ EntryOf(t).user_comments = <<"checked", "again">>
          /\ EntryOf(t).flags = {"c-format", "no-wrap", "fuzzy"}
          /\ EntryOf(t).auto_comments = <<"extracted">>
    /\ \E t \in Merges : t.path = "fuzzy"

\* ------------------------------------------------------------------------
\* Two passes of update() on one catalog
\* ------------------------------------------------------------------------
\* the locals of a call of update that has not started
Idle ==
    [at |-> "idle", no_fuzzy_matching |-> FALSE, messages |-> <<>>,
     candidates |-> <<>>, todo |-> <<>>, remaining |-> <<>>,
     fuzzy_matches |-> {}, trace |-> <<>>]

\* a pass that clears the main mapping before it snapshots it
Started_AfterClear(c, template, no_fuzzy_matching) ==
    [at |-> "loop", no_fuzzy_matching |-> no_fuzzy_matching,
     messages |-> <<>>, candidates |-> <<>>,
     todo |-> Stored(template), remaining |-> <<>>,
     fuzzy_matches |-> {}, trace |-> <<>>]

\* the locals of a call of update after lines 906-922: the snapshot, its
\* copy, the candidate pool, and the template's messages still to visit
Started(c, template, no_fuzzy_matching) ==
    [at |-> "loop", no_fuzzy_matching |-> no_fuzzy_matching,
     messages |-> c.messages,
     candidates |-> IF no_fuzzy_matching THEN <<>>
                    ELSE FuzzyCandidates(c.messages, <<>>),
     todo |-> Stored(template), remaining |-> c.messages,
     fuzzy_matches |-> {}, trace |-> <<>>]

\* the state of the pass p as the loop body takes it: the catalog is the
\* one self names now, whichever pass cleared it last
PassState(p) ==
    [c |-> cat, remaining |-> hist.passes[p].remaining,
     fuzzy_matches |-> hist.passes[p].fuzzy_matches,
     trace |-> hist.passes[p].trace, raised |-> FALSE]

\* the locals of pass p after a step that left the pass state st
After(p, st, at, todo) ==
    [hist.passes[p] EXCEPT !.at = at, !.todo = todo,
                           !.remaining = st.remaining,
                           !.fuzzy_matches = st.fuzzy_matches,
                           !.trace = st.trace]

\* whether the other pass is between its first and its last statement
Running(p) == hist.passes[p].at = "loop"

ConcurrentInit ==
    /\ cat = Catalog("de", "created")
    /\ tmpl \in WorkTemplates
    /\ pc = "build"
    /\ hist = [pre |-> <<>>, overlapped |-> FALSE, passes |-> [p \in 1..2 |-> Idle]]
    /\ other = <<>>
    /\ log = <<>>
    /\ fs = {}
    /\ shared = {}

\* pass p runs lines 906-922 of update: the main mapping is snapshotted and
\* replaced by an empty one
PassStart(p, no_fuzzy_matching) ==
    /\ hist.passes[p].at = "idle"
    /\ p = 2 => hist.passes[1].at # "idle"
    /\ cat' = StartPass(cat).c
    /\ tmpl' = AfterMimeHeaders(tmpl)
    /\ shared' = {}
    /\ pc' = "passes"
    /\ hist' = [hist EXCEPT
                  !.pre = IF pc = "build" THEN cat.messages ELSE @,
                  !.overlapped = @ \/ Running(3 - p),
                  !.passes[p] = Started(cat, tmpl, no_fuzzy_matching)]
    /\ UNCHANGED <<other, log, fs>>

\* the pass state after pass p ran the loop body on its next message
StepOf(p) ==
    UpdateStep(PassState(p), hist.passes[p].messages, hist.passes[p].candidates,
               hist.passes[p].todo[1], hist.passes[p].no_fuzzy_matching, TRUE)

\* the key of the next message of pass p
NextKey(p) == KeyFor(hist.passes[p].todo[1].id, hist.passes[p].todo[1].context)

\* pass p runs the body of the loop over the template once (lines 958-984):
\* a message assigned under a key the mapping holds changes the stored
\* object, which is the template's own when an earlier step stored it so
PassStep(p) ==
    /\ hist.passes[p].at = "loop"
    /\ hist.passes[p].todo # <<>>
    /\ cat' = StepOf(p).c
    /\ tmpl' = [tmpl EXCEPT !.messages = Also(@, "tmpl", StepOf(p).c, NextKey(p))]
    /\ shared' = IF ~Has(cat.messages, NextKey(p)) /\ ~StepOf(p).raised
                    /\ StepOf(p).trace[Len(StepOf(p).trace)].path = "new"
                 THEN shared \cup {<<"tmpl", NextKey(p)>>} ELSE shared
    /\ hist' = [hist EXCEPT
                  !.passes[p] = After(p, StepOf(p),
                                      IF StepOf(p).raised THEN "raised" ELSE "loop",
                                      Tail(hist.passes[p].todo))]
    /\ UNCHANGED <<pc, other, log, fs>>

\* pass p runs lines 986-999: what is left of its copy goes to obsolete
PassEnd(p) ==
    /\ hist.passes[p].at = "loop"
    /\ hist.passes[p].todo = <<>>
    /\ cat' = EndPass(PassState(p), tmpl, hist.passes[p].no_fuzzy_matching, FALSE).c
    /\ hist' = [hist EXCEPT !.passes[p].at = "done"]
    /\ UNCHANGED <<tmpl, pc, other, log, fs, shared>>

ConcurrentNext ==
    \/ \E a \in {b \in WorkArgs : b.id.forms[1] = color /\ b.string.forms[1] # "Farbe"} : CatalogAdd(a)
    \/ \E p \in 1..2, no_fuzzy_matching \in BOOLEAN : PassStart(p, no_fuzzy_matching)
    \/ \E p \in 1..2 : PassStep(p)
    \/ \E p \in 1..2 : PassEnd(p)

ConcurrentSpec == ConcurrentInit /\ [][ConcurrentNext]_vars

\* both passes have returned
BothReturned == pc = "passes" /\ \A p \in 1..2 : hist.passes[p].at = "done"

\* the keys of the template that had a translation before both passes
Translated == {k \in Keys(hist.pre) \cap TemplateKeys : StrTruthy(Get(hist.pre, k).string)}

\* the entry of key k still carries the translation it had: a non-empty
\* string that starts with the form the old one started with
Kept(k) ==
    /\ Has(cat.messages, k)
    /\ StrTruthy(Get(cat.messages, k).string)
    /\ Get(cat.messages, k).string.forms[1] = Get(hist.pre, k).string.forms[1]

\* the entry of key k is in the main mapping without a translation, and the
\* old message is not in obsolete
Lost(k) ==
    /\ Has(cat.messages, k)
    /\ ~StrTruthy(Get(cat.messages, k).string)
    /\ ~Has(cat.obsolete, k)

\* C24: when two passes of update on one catalog, against the same
\* template, have both returned, an entry that was translated before both
\* and is in the template is without its translation only if the second
\* pass started before the first had finished: every serial execution keeps
\* the translation, and an overlapped one can lose it.
C24_LostOnlyWhenOverlapped ==
    BothReturned => \A k \in Translated : ~Kept(k) => hist.overlapped

C24_Witness ==
    /\ BothReturned
    /\ hist.overlapped
    /\ \E k \in Translated : Lost(k)

\* ------------------------------------------------------------------------
\* Further properties of a catalog at work
\* ------------------------------------------------------------------------
\* C25: the main mapping and obsolete are disjoint: after any call of
\* update, in any sequence of updates against one template after another,
\* no key is both a key of the main mapping and a key of obsolete.
C25_LiveObsoleteDisjoint ==
    [][Called("update") => Keys(cat'.messages) \cap Keys(cat'.obsolete) = {}]_vars

\* the items of a sequence, as a set
Range(s) == {s[i] : i \in DOMAIN s}

\* C26: difference reflects only its latest template: after a call of
\* difference that returned, with no update before it, every message of new
\* is the clone of a message of the template whose key the catalog lacks,
\* and every entry of orphans is an entry whose key is the key of no message
\* of the template: nothing an earlier call classified, and the last
\* template no longer justifies, remains in new or orphans.
C26_LatestTemplateOnly ==
    [][(/\ log' = Append(log, [op |-> "difference", raised |-> FALSE])
        /\ \A i \in DOMAIN log : log[i].op # "update")
       => /\ Range(Values(cat'.new)) \subseteq {clone(m) : m \in Range(Absent(cat, tmpl))}
          /\ Range(cat'.orphans) \subseteq Range(Unmatched(cat, tmpl))]_vars

\* ------------------------------------------------------------------------
\* TranslationProject: a template and the catalogs of two locales
\* ------------------------------------------------------------------------
\* str(message.id): the id itself, or the repr of a tuple of texts
IdStr(id) ==
    IF ~id.tup THEN id.forms[1]
    ELSE <<"(">>
         \o Join([i \in DOMAIN id.forms |-> <<"'">> \o id.forms[i] \o <<"'">>],
                 <<",", " ">>)
         \o (IF Len(id.forms) = 1 THEN <<",">> ELSE <<>>) \o <<")">>

\* catalog.properties_of(template): the locale and the other attributes of
\* the template, the locale through its setter
properties_of(c, template) ==
    SetLocale([c EXCEPT !.domain = template.domain,
                        !.header_comment = template.header_comment,
                        !.project = template.project,
                        !.version = template.version,
                        !.copyright_holder = template.copyright_holder,
                        !.msgid_bugs_address = template.msgid_bugs_address,
                        !.creation_date = template.creation_date,
                        !.revision_date = template.revision_date,
                        !.last_translator = template.last_translator,
                        !.language_team = template.language_team,
                        !.charset = template.charset,
                        !.fuzzy = template.fuzzy,
                        !.filename = template.filename],
              IF template.locale = None THEN NoLocale
              ELSE LocaleObject(template.locale))

\* the template as a pass of update on the catalog entry sees it: a
\* catalog updated against itself iterates the mapping it has just emptied
TemplateFor(entry, template) ==
    IF entry.locale = "" THEN StartPass(template).c ELSE template

\* the state of the loop of babel_update after the update of entry ended
\* in the pass state res
Took(st, entry, res) ==
    [catalogs |-> Append(st.catalogs,
                         [entry EXCEPT !.catalog =
                             IF entry.locale = "" THEN AfterMimeHeaders(res.c) ELSE res.c]),
     template |-> AfterMimeHeaders(IF entry.locale = "" THEN res.c ELSE st.template),
     raised |-> res.raised]

\* the body of the loop of babel_update: a catalog without a Locale is
\* passed over, any other is updated against the template
Turn(st, entry) ==
    IF entry.catalog.locale = None
    THEN [st EXCEPT !.catalogs = Append(@, entry)]
    ELSE Took(st, entry,
              update(IF entry.locale = "" THEN st.template ELSE entry.catalog,
                     TemplateFor(entry, st.template), FALSE, FALSE, TRUE))

\* the loop of babel_update over the catalogs todo; an exception ends it:
\* [catalogs, template, raised]
RECURSIVE UpdateAll(_, _)
UpdateAll(st, todo) ==
    IF todo = <<>> \/ st.raised THEN st
    ELSE UpdateAll(Turn(st, todo[1]), Tail(todo))

\* project.babel_update() with its defaults
babel_update(catalogs) ==
    UpdateAll([catalogs |-> <<>>, template |-> catalogs[1].catalog, raised |-> FALSE],
              catalogs)

\* the loop of calculate_updates over the template's messages, for one
\* catalog: the mapping new afterwards
RECURSIVE Missing(_, _, _)
Missing(new, messages, todo) ==
    IF todo = <<>> THEN new
    ELSE IF Strip(IdStr(todo[1].id)) = <<>>
         \/ Has(messages, PlainKey(IdStr(todo[1].id)))
    THEN Missing(new, messages, Tail(todo))
    ELSE Missing(Put(new, PlainKey(IdStr(todo[1].id)), clone(todo[1])),
                 messages, Tail(todo))

\* project.calculate_updates(), for one catalog of the project
calculate_updates(c, template) ==
    [c EXCEPT !.new = Missing(@, c.messages, Iterate(template))]

\* dict.update(): each entry of more assigned in d
RECURSIVE UpdateDict(_, _)
UpdateDict(d, more) ==
    IF more = <<>> THEN d
    ELSE UpdateDict(Put(d, more[1].key, more[1].msg), Tail(more))

\* project.perform_updates(), for one catalog of the project
perform_updates(c) ==
    [c EXCEPT !.messages = UpdateDict(@, c.new), !.new = <<>>]

\* the loop of mark_all_orphans_obsolete over the template's messages, for
\* one catalog: the mapping obsolete afterwards
RECURSIVE MarkMissing(_, _, _)
MarkMissing(obsolete, messages, todo) ==
    IF todo = <<>> THEN obsolete
    ELSE IF Strip(IdStr(todo[1].id)) = <<>>
         \/ Has(messages, PlainKey(IdStr(todo[1].id)))
    THEN MarkMissing(obsolete, messages, Tail(todo))
    ELSE MarkMissing(Put(obsolete, PlainKey(IdStr(todo[1].id)),
                         [clone(todo[1]) EXCEPT !.modified = TRUE]),
                     messages, Tail(todo))

\* project.mark_all_orphans_obsolete(), for one catalog of the project
mark_all_orphans_obsolete(c, template) ==
    [c EXCEPT !.obsolete = MarkMissing(@, c.messages, Iterate(template))]

\* the catalog that a list of calls of add builds, from the catalog c
RECURSIVE BuiltFrom(_, _)
BuiltFrom(c, args) ==
    IF args = <<>> THEN c ELSE add(BuiltFrom(c, SubSeq(args, 1, Len(args) - 1)), args[Len(args)]).c

\* the calls made on a project
MaxCalls == 3

\* what the sources of the project hold when they are extracted
Extracted ==
    {<<Args(Scalar(color), Scalar(None), {}, None, "b.py"),
       Args(Scalar(color), Scalar(None), {}, "menu", "b.py")>>,
     <<Args(Scalar(Colour), Scalar(None), {}, None, "b.py")>>}

\* a project as loaded: a template, with or without a Language header, the
\* catalog of a locale, and a catalog whose locale is not known
ProjectInit ==
    /\ tmpl \in {BuiltFrom(Catalog(locale, "extracted"), args) :
                    locale \in {None, "de"},
                    args \in {<<Args(Scalar(color), Scalar(None), {}, None, "b.py"),
                                Args(Scalar(color), Scalar(None), {}, "menu", "b.py")>>,
                              <<Args(Tuple(<<color, colors>>), Tuple(<<None, None>>), {}, None, "b.py")>>}}
    /\ cat = BuiltFrom(Catalog("de", "created"),
                       <<Args(Scalar(color), Scalar("couleur"), {}, None, "a.py"),
                         Args(Scalar(color), Scalar("en couleur"), {}, "menu", "a.py")>>)
    /\ other = <<BuiltFrom(CatalogWith([Defaults EXCEPT !.locale = LocaleString(<<"x", "x">>),
                                                       !.creation_date = "created"]),
                           <<Args(Scalar(color), Scalar("couleur"), {}, None, "a.py")>>)>>
    /\ pc = "build"
    /\ hist = [previous |-> <<>>]
    /\ log = <<>>
    /\ fs = {}
    /\ shared = {}

\* the project after a call that left the catalogs cs, in the order of
\* self.catalogs
Project(op, raised, cs) ==
    /\ Len(log) < MaxCalls
    /\ tmpl' = cs[1].catalog
    /\ cat' = cs[2].catalog
    /\ other' = <<cs[3].catalog>>
    /\ log' = Append(log, [op |-> op, raised |-> raised])
    /\ UNCHANGED <<pc, fs, shared>>

\* the catalogs after a loop that ended in st: those it did not reach stay
\* as they were
Reached(st, catalogs) ==
    [i \in DOMAIN catalogs |->
        IF i <= Len(st.catalogs) THEN st.catalogs[i] ELSE catalogs[i]]

\* the project after babel_update ended in st
ProjectUpdated(st) == Project("babel_update", st.raised, Reached(st, Catalogs))

\* project.babel_update()
BabelUpdate ==
    /\ ProjectUpdated(babel_update(Catalogs))
    /\ UNCHANGED hist

\* the project after the new template was compared with the previous one,
\* which ended in st: it takes the attributes of the previous one and
\* replaces it, unless difference raised
ProjectExtracted(st, previous) ==
    /\ Project("babel_extract", st.raised,
               [Catalogs EXCEPT ![1].catalog =
                   IF st.raised THEN previous ELSE properties_of(st.c, previous)])
    /\ hist' = [previous |-> <<previous>>]

\* project.babel_extract(), the sources holding the messages args
BabelExtract(args) ==
    ProjectExtracted(difference(BuiltFrom(CatalogWith(Defaults), args), tmpl),
                     AfterMimeHeaders(tmpl))

\* project.calculate_updates(): every catalog of the project, the template
\* among them
CalculateUpdates ==
    /\ Project("calculate_updates", FALSE,
               [i \in DOMAIN Catalogs |->
                   [Catalogs[i] EXCEPT !.catalog =
                       calculate_updates(IF i = 1 THEN AfterMimeHeaders(@) ELSE @, tmpl)]])
    /\ UNCHANGED hist

\* project.perform_updates()
PerformUpdates ==
    /\ Project("perform_updates", FALSE,
               [i \in DOMAIN Catalogs |->
                   [Catalogs[i] EXCEPT !.catalog = perform_updates(@)]])
    /\ UNCHANGED hist

\* project.mark_all_orphans_obsolete()
MarkAllOrphansObsolete ==
    /\ Project("mark_all_orphans_obsolete", FALSE,
               [i \in DOMAIN Catalogs |->
                   [Catalogs[i] EXCEPT !.catalog =
                       mark_all_orphans_obsolete(IF i = 1 THEN AfterMimeHeaders(@) ELSE @, tmpl)]])
    /\ UNCHANGED hist

ProjectNext ==
    \/ BabelUpdate
    \/ \E args \in Extracted : BabelExtract(args)
    \/ CalculateUpdates
    \/ PerformUpdates
    \/ MarkAllOrphansObsolete

ProjectSpec == ProjectInit /\ [][ProjectNext]_vars

\* ------------------------------------------------------------------------
\* Properties of the project
\* ------------------------------------------------------------------------
\* C27: babel_update never touches the template: a call of babel_update
\* leaves the main mapping and the obsolete mapping of the catalog stored
\* under the template key as they were, and leaves each of the other
\* catalogs as an update against that template leaves it, whether or not
\* the template has a Locale and whether or not the catalog's locale is
\* known.
C27_TemplateUntouched ==
    [][Called("babel_update")
       => /\ tmpl'.messages = tmpl.messages
          /\ tmpl'.obsolete = tmpl.obsolete
          /\ cat' = update(cat, tmpl, FALSE, FALSE, TRUE).c
          /\ other'[1] = update(other[1], tmpl, FALSE, FALSE, TRUE).c]_vars

\* the messages of the mapping d whose derived key is no key of e
Lacking(d, e) ==
    {m \in Range(Values(d)) : ~Has(e, KeyFor(m.id, m.context))}

\* C28: added and removed after extraction: when babel_extract has replaced
\* the previous template by the extracted one, new of the extracted
\* template holds exactly its messages whose key the previous template
\* lacks, orphans exactly the messages of the previous template whose key
\* the extracted one lacks, and the main mapping of the previous template
\* is as it was.
C28_AddedRemoved ==
    [][log' = Append(log, [op |-> "babel_extract", raised |-> FALSE])
       => /\ Range(Values(tmpl'.new)) = Lacking(tmpl'.messages, tmpl.messages)
          /\ Range(Values(tmpl'.orphans)) = Lacking(tmpl.messages, tmpl'.messages)
          /\ hist'.previous[1].messages = tmpl.messages]_vars

\* obsolete of the catalog c has become that of d by gaining exactly the
\* orphans of c, the entries whose key no message of the template has, each
\* marked modified
OrphansMarked(c, d, template) ==
    /\ Keys(d.obsolete) = Keys(c.obsolete) \cup Keys(Unmatched(c, template))
    /\ \A e \in Range(Unmatched(c, template)) :
          Get(d.obsolete, e.key) = [e.msg EXCEPT !.modified = TRUE]
    /\ \A k \in Keys(c.obsolete) \ Keys(Unmatched(c, template)) :
          Get(d.obsolete, k) = Get(c.obsolete, k)

\* C29: mark_all_orphans_obsolete marks orphans: after the call the
\* obsolete mapping of each catalog has gained exactly the catalog's
\* orphans, marked modified, and no message of the template that the
\* catalog lacks.
C29_OrphansMarked ==
    [][Called("mark_all_orphans_obsolete")
       => /\ OrphansMarked(cat, cat', tmpl)
          /\ OrphansMarked(other[1], other'[1], tmpl)]_vars

\* new of the catalog d holds, under its derived key, a clone of each
\* non-header message of the template that the main mapping of c lacks, and
\* nothing else
FoundMissing(c, d, template) ==
    /\ Keys(d.new) = {KeyFor(m.id, m.context) : m \in Range(Absent(c, template))}
    /\ \A m \in Range(Absent(c, template)) :
          Get(d.new, KeyFor(m.id, m.context)) = clone(m)

\* no message is stored twice: no two entries of the mapping hold messages
\* of one derived key
StoredOnce(d) ==
    \A i, j \in DOMAIN d :
        KeyFor(d[i].msg.id, d[i].msg.context) = KeyFor(d[j].msg.id, d[j].msg.context)
        => i = j

\* new of the catalog c has been moved into the main mapping of d, which
\* stores no message twice unless that of c did
Performed(c, d) ==
    /\ d.new = <<>>
    /\ Range(Values(c.new)) \subseteq Range(Values(d.messages))
    /\ StoredOnce(c.messages) => StoredOnce(d.messages)

\* C30: calculate_updates finds exactly the missing messages: called with
\* new empty, it leaves in new of every catalog a clone of exactly the
\* non-header messages of the template whose derived key the catalog lacks,
\* under that key, and adds nothing to new of the template; perform_updates
\* moves the entries of new into the main mapping, stores no message a
\* second time, and leaves new empty.
C30_ExactlyMissing ==
    [][/\ (Called("calculate_updates") /\ cat.new = <<>> /\ other[1].new = <<>>)
          => /\ FoundMissing(cat, cat', tmpl)
             /\ FoundMissing(other[1], other'[1], tmpl)
             /\ tmpl'.new = tmpl.new
       /\ Called("perform_updates")
          => /\ Performed(cat, cat')
             /\ Performed(other[1], other'[1])]_vars

====
